---- MODULE Spec2Model ----
(***************************************************************************)
(* Model of the normalization and record-linking functions of the          *)
(* Interactive Digital Atlas scripts:                                      *)
(*   generate_atlas.py, generate_atlas_advanced.py, generate_atlas_ultra.py*)
(*   generate_combined_map.py, integrate_pdf_data.py, extract_pdf_data.py  *)
(*                                                                         *)
(* Text.  A Python str is a sequence of characters.  An ASCII character is *)
(* written as itself ("6", "(", " "), every other character as the letter  *)
(* u followed by its code point in hexadecimal ("u5e74" is U+5E74, the     *)
(* year marker).  The literal of the source is given in a comment beside   *)
(* every table entry.                                                      *)
(*                                                                         *)
(* Values.  A Python value is a record tagged by kind: None, nan (a        *)
(* missing pandas cell), str, int.                                         *)
(***************************************************************************)
EXTENDS Integers, Sequences, FiniteSets, TLC

VARIABLES
    fn,             \* name of the function that was applied ("" before the call)
    arg,            \* its first argument
    arg2,           \* its second argument (None when it takes one)
    ret,            \* the value it returned
    calls,          \* how many times it was applied (re-application feeds ret back)
    pdf_text,       \* integrate_pdf_data: the OCR text handed to parse_catalog_entries
    lines,          \* parse_catalog_entries: pdf_text.split('\n')
    pos,            \* parse_catalog_entries: index of the next line of the for loop
    current_entry,  \* parse_catalog_entries: the entry being accumulated ({} when none)
    entries,        \* parse_catalog_entries: the entries appended so far
    pc,             \* position in the pipeline
    csv_data,       \* the batch of records (DataFrame rows, in index order)
    matches         \* match_pdf_to_csv: the matches it returned

vars == <<fn, arg, arg2, ret, calls, pdf_text, lines, pos, current_entry,
          entries, pc, csv_data, matches>>

callVars == <<fn, arg, arg2, ret, calls>>
pipeVars == <<pdf_text, lines, pos, current_entry, entries, pc, csv_data, matches>>

-----------------------------------------------------------------------------
(* Bounds of the model *)

\* era inputs are concatenations of at most this many pieces
MaxEraPieces == 3
\* largest offset year of the well-formed era strings "{era}{offset}u5e74"
MaxOffset == 30

-----------------------------------------------------------------------------
(* Python values *)

None == [kind |-> "None"]
NaN == [kind |-> "nan"]
PyStr(s) == [kind |-> "str", s |-> s]
PyInt(n) == [kind |-> "int", n |-> n]
\* a float with an integral value n, such as 1919.0
PyFloat(n) == [kind |-> "float", n |-> n]

\* an exception that left the function
Raised(exc) == [kind |-> "raise", exc |-> exc]

\* pandas.isna on a scalar
isna(v) == v.kind \in {"None", "nan"}

\* not v
Falsy(v) ==
    \/ v.kind = "None"
    \/ v.kind = "str" /\ v.s = <<>>
    \/ v.kind \in {"int", "float"} /\ v.n = 0

-----------------------------------------------------------------------------
(* Python str operations *)

Digits == <<"0", "1", "2", "3", "4", "5", "6", "7", "8", "9">>

IsDigit(c) == \E d \in 1..10 : Digits[d] = c

DigitVal(c) == (CHOOSE d \in 1..10 : Digits[d] = c) - 1

\* the characters str.strip(), str.split() and the regex class \s treat as blank
Whitespace == {" ", "\t", "\n", "u3000"}

RECURSIVE LStrip(_)
LStrip(s) == IF s # <<>> /\ Head(s) \in Whitespace THEN LStrip(Tail(s)) ELSE s

RECURSIVE RStrip(_)
RStrip(s) ==
    IF s # <<>> /\ s[Len(s)] \in Whitespace THEN RStrip(SubSeq(s, 1, Len(s) - 1)) ELSE s

\* s.strip()
Strip(s) == RStrip(LStrip(s))

\* s[i:].startswith(sub), i counted from 1
StartsAt(s, sub, i) ==
    /\ i >= 1
    /\ i + Len(sub) - 1 <= Len(s)
    /\ \A k \in 1..Len(sub) : s[i + k - 1] = sub[k]

\* sub in s
Contains(s, sub) == \E i \in 1..(Len(s) + 1) : StartsAt(s, sub, i)

\* int(digits): decimal parsing of a non-empty run of digits
RECURSIVE ParseInt(_)
ParseInt(ds) ==
    IF ds = <<>> THEN 0
    ELSE 10 * ParseInt(SubSeq(ds, 1, Len(ds) - 1)) + DigitVal(ds[Len(ds)])

\* str(n) of an integer n >= 0, as in the f-string "{offset}"
RECURSIVE IntToStr(_)
IntToStr(n) ==
    IF n < 10 THEN <<Digits[n + 1]>>
    ELSE IntToStr(n \div 10) \o <<Digits[(n % 10) + 1]>>

\* index just past the maximal run of digits that starts at i (i itself when none)
RECURSIVE DigitRunEnd(_, _)
DigitRunEnd(s, i) ==
    IF i <= Len(s) /\ IsDigit(s[i]) THEN DigitRunEnd(s, i + 1) ELSE i

\* index just past the maximal run of blanks that starts at i
RECURSIVE BlankRunEnd(_, _)
BlankRunEnd(s, i) ==
    IF i <= Len(s) /\ s[i] \in Whitespace THEN BlankRunEnd(s, i + 1) ELSE i

\* the smallest member of a non-empty set of integers
Min(S) == CHOOSE m \in S : \A n \in S : m <= n

-----------------------------------------------------------------------------
(* Era-to-Year converters *)

Nian == <<"u5e74">>            \* the year marker of the era strings
Placeholder == <<"uff1f">>     \* the full-width question mark for "unknown"

\* re.search result: the text of group 1, or no match
NoMatch == [found |-> FALSE, group |-> <<>>]
Match(g) == [found |-> TRUE, group |-> g]

\* re.search(r'(\d+)u5e74', s): the leftmost digit run directly followed by the marker
SearchDigitsNian(s) ==
    LET starts == {i \in 1..Len(s) :
                      /\ IsDigit(s[i])
                      /\ StartsAt(s, Nian, DigitRunEnd(s, i))}
    IN  IF starts = {} THEN NoMatch
        ELSE Match(SubSeq(s, Min(starts), DigitRunEnd(s, Min(starts)) - 1))

\* re.search(f'{era}(\d+)u5e74', s): era name, digit run, marker, leftmost
SearchEraDigitsNian(s, era) ==
    LET starts == {i \in 1..Len(s) :
                      /\ StartsAt(s, era, i)
                      /\ DigitRunEnd(s, i + Len(era)) > i + Len(era)
                      /\ StartsAt(s, Nian, DigitRunEnd(s, i + Len(era)))}
    IN  IF starts = {} THEN NoMatch
        ELSE LET d == Min(starts) + Len(era)
             IN  Match(SubSeq(s, d, DigitRunEnd(s, d) - 1))

\* re.search(f'{era}\s*(\d+)', s): era name, optional blanks, digit run, leftmost
SearchEraBlankDigits(s, era) ==
    LET starts == {i \in 1..Len(s) :
                      /\ StartsAt(s, era, i)
                      /\ LET d == BlankRunEnd(s, i + Len(era))
                         IN  DigitRunEnd(s, d) > d}
    IN  IF starts = {} THEN NoMatch
        ELSE LET d == BlankRunEnd(s, Min(starts) + Len(era))
             IN  Match(SubSeq(s, d, DigitRunEnd(s, d) - 1))

\* generate_atlas_ultra.parse_chinese_year: era_map, in insertion order
era_map == <<
    [era |-> <<"u5149", "u7dd2">>, base_year |-> 1875],   \* 光緒
    [era |-> <<"u5ba3", "u7d71">>, base_year |-> 1909],   \* 宣統
    [era |-> <<"u6c11", "u570b">>, base_year |-> 1912],   \* 民國
    [era |-> <<"u540c", "u6cbb">>, base_year |-> 1862],   \* 同治
    [era |-> <<"u5609", "u6176">>, base_year |-> 1796],   \* 嘉慶
    [era |-> <<"u9053", "u5149">>, base_year |-> 1821],   \* 道光
    [era |-> <<"u54b8", "u8c50">>, base_year |-> 1851] >> \* 咸豐

\* the for loop of parse_chinese_year from era k on
RECURSIVE parse_chinese_year_loop(_, _)
parse_chinese_year_loop(s, k) ==
    IF k > Len(era_map) THEN None
    ELSE IF Contains(s, era_map[k].era) /\ SearchDigitsNian(s).found
         THEN PyInt(era_map[k].base_year + ParseInt(SearchDigitsNian(s).group) - 1)
         ELSE parse_chinese_year_loop(s, k + 1)

\* generate_atlas_ultra.parse_chinese_year(year_str)
parse_chinese_year(year_str) ==
    IF isna(year_str) \/ year_str.kind # "str" THEN None
    ELSE parse_chinese_year_loop(year_str.s, 1)

\* generate_atlas_advanced.parse_chinese_era: era_mappings, in insertion order
era_mappings == <<
    [era |-> <<"u5149", "u7dd2">>, start_year |-> 1875],   \* 光緒
    [era |-> <<"u5ba3", "u7d71">>, start_year |-> 1909],   \* 宣統
    [era |-> <<"u54b8", "u8c50">>, start_year |-> 1851],   \* 咸豐
    [era |-> <<"u540c", "u6cbb">>, start_year |-> 1862],   \* 同治
    [era |-> <<"u9053", "u5149">>, start_year |-> 1821],   \* 道光
    [era |-> <<"u5609", "u6176">>, start_year |-> 1796] >> \* 嘉慶

MinGuo == <<"u6c11", "u570b">>      \* 民國
GuangXu == <<"u5149", "u7dd2">>     \* 光緒
Qing == <<"u6e05">>                 \* 清

\* the for loop of parse_chinese_era from era k on
RECURSIVE parse_chinese_era_loop(_, _)
parse_chinese_era_loop(s, k) ==
    IF k > Len(era_mappings) THEN None
    ELSE LET m == SearchEraDigitsNian(s, era_mappings[k].era)
         IN  IF m.found
             THEN PyInt(era_mappings[k].start_year + ParseInt(m.group) - 1)
             ELSE parse_chinese_era_loop(s, k + 1)

\* generate_atlas_advanced.parse_chinese_era(era_str): a number other than 0 is
\* neither falsy nor missing and has no strip()
parse_chinese_era(era_str) ==
    IF Falsy(era_str) \/ isna(era_str) THEN None
    ELSE IF era_str.kind # "str" THEN Raised("AttributeError")
    ELSE IF Strip(era_str.s) = Placeholder THEN None
    ELSE LET s == Strip(era_str.s)
             m == SearchEraDigitsNian(s, MinGuo)
         IN  IF m.found THEN PyInt(1911 + ParseInt(m.group))
             ELSE parse_chinese_era_loop(s, 1)

\* generate_combined_map.parse_year(year_str, era_str) with year_str a missing
\* cell or an integer, era_str a str or a missing cell
parse_year(year_str, era_str) ==
    IF ~isna(year_str) /\ year_str.kind = "int" THEN year_str
    ELSE IF isna(era_str) THEN None
    ELSE LET s == Strip(era_str.s)
             m1 == SearchEraBlankDigits(s, MinGuo)
             m2 == SearchEraBlankDigits(s, GuangXu)
             m3 == SearchEraBlankDigits(s, Qing)
         IN  IF m1.found THEN PyInt(1911 + ParseInt(m1.group))
             ELSE IF m2.found THEN PyInt(1874 + ParseInt(m2.group))
             ELSE IF m3.found THEN PyInt(1800 + ParseInt(m3.group))
             ELSE None

-----------------------------------------------------------------------------
(* Inputs of the era converters *)

\* all concatenations of at most n pieces
RECURSIVE Concats(_, _)
Concats(pieces, n) ==
    IF n = 0 THEN {<<>>}
    ELSE LET shorter == Concats(pieces, n - 1)
         IN  shorter \cup {s \o p : s \in shorter, p \in pieces}

EraNames == {era_map[k].era : k \in 1..Len(era_map)}

EraPieces == EraNames \cup {Qing, Nian, <<"2">>, <<"5">>, <<" ">>, <<"x">>}

\* "{era}{offset}u5e74"
EraString(era, offset) == era \o IntToStr(offset) \o Nian

WellFormedEraStrings ==
    {EraString(era_map[k].era, n) : k \in 1..Len(era_map), n \in 1..MaxOffset}

\* two dated eras one after the other, such as 宣統3年光緒5年
TwoEraStrings ==
    {EraString(e1, n1) \o EraString(e2, n2) :
        e1 \in EraNames, e2 \in EraNames, n1 \in {3, 5}, n2 \in {3, 5}}

\* a dated era after a year count of its own, such as 5年光緒25年
LeadingYearStrings ==
    {IntToStr(5) \o Nian \o EraString(e, n) : e \in EraNames, n \in {2, 25}}

EraInputs ==
    {PyStr(s) : s \in Concats(EraPieces, MaxEraPieces) \cup WellFormedEraStrings
                        \cup TwoEraStrings \cup LeadingYearStrings
                        \cup {<<"1", "9", "1", "9">>}}
        \cup {None, NaN, PyStr(Placeholder)}

YearInputs == {NaN, PyInt(1919)}

pipeIdle ==
    /\ pdf_text = <<>>
    /\ lines = <<>>
    /\ pos = 0
    /\ current_entry = <<>>
    /\ entries = <<>>
    /\ pc = "idle"
    /\ csv_data = <<>>
    /\ matches = <<>>

InitEra ==
    /\ fn = ""
    /\ arg \in EraInputs
    /\ arg2 \in YearInputs
    /\ ret = None
    /\ calls = 0
    /\ pipeIdle

CallParseChineseYear ==
    /\ fn = ""
    /\ arg2 = NaN
    /\ fn' = "parse_chinese_year"
    /\ ret' = parse_chinese_year(arg)
    /\ calls' = 1
    /\ UNCHANGED <<arg, arg2, pipeVars>>

CallParseChineseEra ==
    /\ fn = ""
    /\ arg2 = NaN
    /\ fn' = "parse_chinese_era"
    /\ ret' = parse_chinese_era(arg)
    /\ calls' = 1
    /\ UNCHANGED <<arg, arg2, pipeVars>>

\* parse_year(row year, row era): arg2 is the numeric year, arg the era string
CallParseYear ==
    /\ fn = ""
    /\ fn' = "parse_year"
    /\ ret' = parse_year(arg2, arg)
    /\ calls' = 1
    /\ UNCHANGED <<arg, arg2, pipeVars>>

NextEra == CallParseChineseYear \/ CallParseChineseEra \/ CallParseYear

SpecEra == InitEra /\ [][NextEra]_vars

-----------------------------------------------------------------------------
(* C1 *)

EraFns == {"parse_chinese_year", "parse_chinese_era", "parse_year"}

\* C1: for every era of the era table and every offset >= 1, each converter
\* (parse_chinese_era, parse_chinese_year, parse_year without a numeric year)
\* applied to "{era}{offset}u5e74" returns base_year(era) + offset - 1.
C1_EraOffsetAllConverters ==
    \A k \in 1..Len(era_map), n \in 1..MaxOffset :
        (/\ fn \in EraFns
         /\ arg2 = NaN
         /\ arg = PyStr(EraString(era_map[k].era, n)))
            => ret = PyInt(era_map[k].base_year + n - 1)

\* The same statement for the two converters that hold the whole era table.
C1_EraOffsetTableConverters ==
    \A k \in 1..Len(era_map), n \in 1..MaxOffset :
        (/\ fn \in {"parse_chinese_year", "parse_chinese_era"}
         /\ arg = PyStr(EraString(era_map[k].era, n)))
            => ret = PyInt(era_map[k].base_year + n - 1)

\* parse_year on the two eras it knows
C1_ParseYearKnownEras ==
    \A era \in {MinGuo, GuangXu}, n \in 1..MaxOffset :
        (fn = "parse_year" /\ arg2 = NaN /\ arg = PyStr(EraString(era, n)))
            => \E k \in 1..Len(era_map) :
                  /\ era_map[k].era = era
                  /\ ret = PyInt(era_map[k].base_year + n - 1)

\* the examples of the specification were converted
C1_Witness ==
    /\ fn = "parse_chinese_era"
    /\ arg = PyStr(EraString(GuangXu, 25))
    /\ ret = PyInt(1899)

-----------------------------------------------------------------------------
(* Alias normalizers *)

\* generate_atlas.clean_city_name: standardization_map (generate_atlas_advanced
\* repeats the same table)
standardization_map == <<
    [alias |-> <<"u5317", "u5e73">>, canonical |-> <<"u5317", "u4eac">>],   \* 北平 -> 北京
    [alias |-> <<"u9326", "u6c5f">>, canonical |-> <<"u6210", "u90fd">>],   \* 錦江 -> 成都
    [alias |-> <<"u9326", "u57ce">>, canonical |-> <<"u6210", "u90fd">>],   \* 錦城 -> 成都
    [alias |-> <<"u84c9", "u57ce">>, canonical |-> <<"u6210", "u90fd">>],   \* 蓉城 -> 成都
    [alias |-> <<"u661f", "u6c99">>, canonical |-> <<"u9577", "u6c99">>],   \* 星沙 -> 長沙
    [alias |-> <<"u6f64", "u5dde">>, canonical |-> <<"u93ae", "u6c5f">>],   \* 潤州 -> 鎮江
    [alias |-> <<"u4eac", "u53e3">>, canonical |-> <<"u93ae", "u6c5f">>],   \* 京口 -> 鎮江
    [alias |-> <<"u4eac", "u6c5f">>, canonical |-> <<"u93ae", "u6c5f">>],   \* 京江 -> 鎮江
    [alias |-> <<"u6ec7", "u7701">>, canonical |-> <<"u96f2", "u5357">>],   \* 滇省 -> 雲南
    [alias |-> <<"u7cb5", "u6771", "u7701", "u57ce">>, canonical |-> <<"u5ee3", "u5dde">>],   \* 粵東省城 -> 廣州
    [alias |-> <<"u5ee3", "u9091">>, canonical |-> <<"u5ee3", "u5dde">>],   \* 廣邑 -> 廣州
    [alias |-> <<"u5949", "u5929">>, canonical |-> <<"u700b", "u967d">>],   \* 奉天 -> 瀋陽
    [alias |-> <<"u71d5", "u6e56">>, canonical |-> <<"u5317", "u4eac">>] >> \* 燕湖 -> 北京

\* generate_atlas_ultra: CITY_COORDINATES, in insertion order (degrees * 10^4)
ULTRA_CITY_COORDINATES == <<
    [name |-> <<"u5317", "u4eac">>, lat |-> 399042, lon |-> 1164074],   \* 北京
    [name |-> <<"u5317", "u5e73">>, lat |-> 399042, lon |-> 1164074],   \* 北平
    [name |-> <<"u4e0a", "u6d77">>, lat |-> 312304, lon |-> 1214737],   \* 上海
    [name |-> <<"u5929", "u6d25">>, lat |-> 393434, lon |-> 1173616],   \* 天津
    [name |-> <<"u6210", "u90fd">>, lat |-> 305728, lon |-> 1040668],   \* 成都
    [name |-> <<"u9326", "u6c5f">>, lat |-> 305728, lon |-> 1040668],   \* 錦江
    [name |-> <<"u9326", "u57ce">>, lat |-> 305728, lon |-> 1040668],   \* 錦城
    [name |-> <<"u84c9", "u57ce">>, lat |-> 305728, lon |-> 1040668],   \* 蓉城
    [name |-> <<"u5357", "u4eac">>, lat |-> 320603, lon |-> 1187969],   \* 南京
    [name |-> <<"u9577", "u6c99">>, lat |-> 282282, lon |-> 1129388],   \* 長沙
    [name |-> <<"u93ae", "u6c5f">>, lat |-> 322109, lon |-> 1194552],   \* 鎮江
    [name |-> <<"u5ee3", "u5dde">>, lat |-> 231291, lon |-> 1132644],   \* 廣州
    [name |-> <<"u700b", "u967d">>, lat |-> 418057, lon |-> 1234328],   \* 瀋陽
    [name |-> <<"u5949", "u5929">>, lat |-> 418057, lon |-> 1234328],   \* 奉天
    [name |-> <<"u6606", "u660e">>, lat |-> 250389, lon |-> 1027183],   \* 昆明
    [name |-> <<"u9999", "u6e2f">>, lat |-> 223193, lon |-> 1141694],   \* 香港
    [name |-> <<"u9752", "u6d77">>, lat |-> 366171, lon |-> 1017782] >> \* 青海

\* generate_combined_map.standardize_city: city_map
city_map == <<
    [alias |-> <<"u5317", "u5e73">>, canonical |-> <<"u5317", "u4eac">>],   \* 北平 -> 北京
    [alias |-> <<"u4eac", "u5e08">>, canonical |-> <<"u5317", "u4eac">>],   \* 京师 -> 北京
    [alias |-> <<"u71d5", "u4eac">>, canonical |-> <<"u5317", "u4eac">>],   \* 燕京 -> 北京
    [alias |-> <<"u5929", "u6d25", "u5e02">>, canonical |-> <<"u5929", "u6d25">>],   \* 天津市 -> 天津
    [alias |-> <<"u4e0a", "u6d77", "u5e02">>, canonical |-> <<"u4e0a", "u6d77">>],   \* 上海市 -> 上海
    [alias |-> <<"u6210", "u90fd", "u5e02">>, canonical |-> <<"u6210", "u90fd">>],   \* 成都市 -> 成都
    [alias |-> <<"u957f", "u6c99", "u5e02">>, canonical |-> <<"u957f", "u6c99">>],   \* 长沙市 -> 长沙
    [alias |-> <<"u5357", "u4eac", "u5e02">>, canonical |-> <<"u5357", "u4eac">>],   \* 南京市 -> 南京
    [alias |-> <<"u91d1", "u9675">>, canonical |-> <<"u5357", "u4eac">>],   \* 金陵 -> 南京
    [alias |-> <<"u9547", "u6c5f", "u5e02">>, canonical |-> <<"u9547", "u6c5f">>],   \* 镇江市 -> 镇江
    [alias |-> <<"u6c88", "u9633", "u5e02">>, canonical |-> <<"u6c88", "u9633">>],   \* 沈阳市 -> 沈阳
    [alias |-> <<"u76db", "u4eac">>, canonical |-> <<"u6c88", "u9633">>],   \* 盛京 -> 沈阳
    [alias |-> <<"u6606", "u660e", "u5e02">>, canonical |-> <<"u6606", "u660e">>],   \* 昆明市 -> 昆明
    [alias |-> <<"u5e7f", "u5dde", "u5e02">>, canonical |-> <<"u5e7f", "u5dde">>],   \* 广州市 -> 广州
    [alias |-> <<"u7f8a", "u57ce">>, canonical |-> <<"u5e7f", "u5dde">>] >> \* 羊城 -> 广州

FullParen == "uff08"     \* the full-width opening parenthesis
Shi == "u5e02"           \* 市, "city"
Sheng == "u7701"         \* 省, "province"

\* dict.get(key, key) on a table of alias/canonical pairs
MapGet(table, key) ==
    IF \E k \in 1..Len(table) : table[k].alias = key
    THEN table[CHOOSE k \in 1..Len(table) : table[k].alias = key].canonical
    ELSE key

\* s.split()[0] of a string that holds a non-blank character
FirstToken(s) ==
    LET t == LStrip(s)
        stops == {i \in 1..Len(t) : t[i] \in Whitespace}
    IN  IF stops = {} THEN t ELSE SubSeq(t, 1, Min(stops) - 1)

\* s.split(c)[0]
BeforeFirst(s, c) ==
    LET at == {i \in 1..Len(s) : s[i] = c}
    IN  IF at = {} THEN s ELSE SubSeq(s, 1, Min(at) - 1)

\* generate_atlas.clean_city_name(city_str) (generate_atlas_advanced.clean_city_name
\* is the same function): a number other than 0 is neither falsy nor missing and has
\* no strip()
clean_city_name(city_str) ==
    IF Falsy(city_str) \/ isna(city_str) THEN None
    ELSE IF city_str.kind # "str" THEN Raised("AttributeError")
    ELSE IF Strip(city_str.s) = Placeholder THEN None
    ELSE LET s1 == Strip(city_str.s)
             s2 == IF Contains(s1, <<" ">>) THEN FirstToken(s1) ELSE s1
             s3 == IF Contains(s2, <<FullParen>>) THEN Strip(BeforeFirst(s2, FullParen)) ELSE s2
         IN  PyStr(MapGet(standardization_map, s3))

\* re.sub(r'\([^)]*\)', '', s): every "(" up to the next ")" is removed
RECURSIVE RemoveParens(_)
RemoveParens(s) ==
    LET opens == {i \in 1..Len(s) : s[i] = "(" /\ \E j \in (i + 1)..Len(s) : s[j] = ")"}
    IN  IF opens = {} THEN s
        ELSE LET i == Min(opens)
                 j == Min({j \in (i + 1)..Len(s) : s[j] = ")"})
             IN  SubSeq(s, 1, i - 1) \o RemoveParens(SubSeq(s, j + 1, Len(s)))

\* re.sub(r'u5e02|u7701', '', s)
RemoveSuffixChars(s) == SelectSeq(s, LAMBDA c : c \notin {Shi, Sheng})

\* the for loop of standardize_city over CITY_COORDINATES.keys() from key k on
RECURSIVE standardize_city_loop(_, _)
standardize_city_loop(s, k) ==
    IF k > Len(ULTRA_CITY_COORDINATES) THEN (IF s # <<>> THEN PyStr(s) ELSE None)
    ELSE IF Contains(s, ULTRA_CITY_COORDINATES[k].name)
         THEN PyStr(ULTRA_CITY_COORDINATES[k].name)
         ELSE standardize_city_loop(s, k + 1)

\* generate_atlas_ultra.standardize_city(city_str)
standardize_city_ultra(city_str) ==
    IF isna(city_str) THEN None
    ELSE standardize_city_loop(Strip(RemoveSuffixChars(RemoveParens(city_str.s))), 1)

\* generate_combined_map.standardize_city(city_str)
standardize_city_combined(city_str) ==
    IF city_str.kind # "str" THEN None
    ELSE PyStr(MapGet(city_map, Strip(RemoveParens(Strip(city_str.s)))))

-----------------------------------------------------------------------------
(* Inputs of the alias normalizers *)

\* raw place strings are concatenations of at most this many pieces
MaxCityPieces == 3

BeiPing == <<"u5317", "u5e73">>     \* 北平
BeiJing == <<"u5317", "u4eac">>     \* 北京
JinCheng == <<"u9326", "u57ce">>    \* 錦城
ChengDu == <<"u6210", "u90fd">>     \* 成都

CityPieces ==
    {BeiPing, BeiJing, JinCheng, Placeholder, <<" ">>, <<"\t">>, <<FullParen>>,
     <<"(">>, <<")">>, <<Shi>>, <<"x">>}

RegistryNames ==
    {standardization_map[k].alias : k \in 1..Len(standardization_map)}
        \cup {standardization_map[k].canonical : k \in 1..Len(standardization_map)}
        \cup {ULTRA_CITY_COORDINATES[k].name : k \in 1..Len(ULTRA_CITY_COORDINATES)}
        \cup {city_map[k].alias : k \in 1..Len(city_map)}
        \cup {city_map[k].canonical : k \in 1..Len(city_map)}

CityInputs ==
    {PyStr(s) : s \in Concats(CityPieces, MaxCityPieces) \cup RegistryNames}
        \cup {None, NaN}

AliasFns == {"clean_city_name", "ultra.standardize_city", "combined.standardize_city"}

\* the normalizer called fn
ApplyAlias(f, v) ==
    CASE f = "clean_city_name" -> clean_city_name(v)
      [] f = "ultra.standardize_city" -> standardize_city_ultra(v)
      [] f = "combined.standardize_city" -> standardize_city_combined(v)

InitAlias ==
    /\ fn = ""
    /\ arg \in CityInputs
    /\ arg2 = None
    /\ ret = None
    /\ calls = 0
    /\ pipeIdle

CallCleanCityName ==
    /\ fn = ""
    /\ fn' = "clean_city_name"
    /\ ret' = clean_city_name(arg)
    /\ calls' = 1
    /\ UNCHANGED <<arg, arg2, pipeVars>>

CallStandardizeCityUltra ==
    /\ fn = ""
    /\ fn' = "ultra.standardize_city"
    /\ ret' = standardize_city_ultra(arg)
    /\ calls' = 1
    /\ UNCHANGED <<arg, arg2, pipeVars>>

CallStandardizeCityCombined ==
    /\ fn = ""
    /\ fn' = "combined.standardize_city"
    /\ ret' = standardize_city_combined(arg)
    /\ calls' = 1
    /\ UNCHANGED <<arg, arg2, pipeVars>>

\* the normalizer applied to its own non-null result
Renormalize ==
    /\ fn \in AliasFns
    /\ calls = 1
    /\ ret # None
    /\ arg' = ret
    /\ ret' = ApplyAlias(fn, ret)
    /\ calls' = 2
    /\ UNCHANGED <<fn, arg2, pipeVars>>

NextAlias ==
    \/ CallCleanCityName
    \/ CallStandardizeCityUltra
    \/ CallStandardizeCityCombined
    \/ Renormalize

SpecAlias == InitAlias /\ [][NextAlias]_vars

-----------------------------------------------------------------------------
(* C2 *)

\* a key of the ultra registry is an alias when an earlier key has its coordinates;
\* the earliest such key is its canonical name
UltraCanonical(k) ==
    LET same == {j \in 1..k : /\ ULTRA_CITY_COORDINATES[j].lat = ULTRA_CITY_COORDINATES[k].lat
                              /\ ULTRA_CITY_COORDINATES[j].lon = ULTRA_CITY_COORDINATES[k].lon}
    IN  ULTRA_CITY_COORDINATES[Min(same)].name

\* C2, clean_city_name: every alias of standardization_map gives its canonical name
C2_CleanCityNameAliases ==
    \A k \in 1..Len(standardization_map) :
        (fn = "clean_city_name" /\ calls = 1 /\ arg = PyStr(standardization_map[k].alias))
            => /\ ret = PyStr(standardization_map[k].canonical)
               /\ ret # arg

\* C2, generate_combined_map.standardize_city: every alias of city_map gives its
\* canonical name
C2_CombinedAliases ==
    \A k \in 1..Len(city_map) :
        (fn = "combined.standardize_city" /\ calls = 1 /\ arg = PyStr(city_map[k].alias))
            => /\ ret = PyStr(city_map[k].canonical)
               /\ ret # arg

\* C2, generate_atlas_ultra.standardize_city: every alias of the registry gives its
\* canonical name
C2_UltraAliases ==
    \A k \in 1..Len(ULTRA_CITY_COORDINATES) :
        (/\ fn = "ultra.standardize_city"
         /\ calls = 1
         /\ arg = PyStr(ULTRA_CITY_COORDINATES[k].name))
            => ret = PyStr(UltraCanonical(k))

\* C2: for every alias known to the location registry each normalizer
\* (clean_city_name, both standardize_city) returns the alias's canonical name and
\* never the alias itself.
C2_AliasGivesCanonical ==
    /\ C2_CleanCityNameAliases
    /\ C2_CombinedAliases
    /\ C2_UltraAliases

-----------------------------------------------------------------------------
(* C3 *)

\* the raw strings C3 is about: the placeholder, an empty or blank string, a string
\* whose first non-blank character opens a parenthesis
CleansToNothing(s) ==
    \/ s = Placeholder
    \/ Strip(s) = <<>>
    \/ Head(Strip(s)) \in {FullParen, "("}

\* C3: the normalizer returns null, never "" and never the placeholder, for the
\* placeholder, for an empty or blank string and for a string that is empty after
\* cleaning.
C3_UnknownGivesNull ==
    (/\ fn \in {"clean_city_name", "ultra.standardize_city"}
     /\ calls = 1
     /\ arg.kind = "str"
     /\ CleansToNothing(arg.s))
        => ret = None

\* the part of C3 the code keeps: the exact placeholder and the empty string in
\* clean_city_name, a blank string in standardize_city
C3_NullCasesKept ==
    /\ (fn = "clean_city_name" /\ calls = 1 /\ arg \in {PyStr(Placeholder), PyStr(<<>>)})
            => ret = None
    /\ (fn = "ultra.standardize_city" /\ calls = 1 /\ arg.kind = "str" /\ Strip(arg.s) = <<>>)
            => ret = None

-----------------------------------------------------------------------------
(* C4 *)

\* C4: normalize(normalize(x)) = normalize(x) whenever normalize(x) is not null.
C4_Idempotent ==
    (fn \in AliasFns /\ calls = 2) => ret = arg

\* idempotence of the two standardize_city functions
C4_StandardizeCityIdempotent ==
    (fn \in {"ultra.standardize_city", "combined.standardize_city"} /\ calls = 2)
        => ret = arg

-----------------------------------------------------------------------------
(* Keyword categorizers *)

\* generate_atlas_ultra.categorize_book: the four keyword lists
ultra_theology_keywords == <<
    <<"u5929", "u65b9">>,             \* 天方
    <<"u6559", "u7fa9">>,             \* 教義
    <<"u4fe1", "u4ef0">>,             \* 信仰
    <<"u6e05", "u771f">>,             \* 清真
    <<"u6559", "u898f">>,             \* 教規
    <<"u7d93", "u5b78">>,             \* 經學
    <<"u6559", "u6cd5">>,             \* 教法
    <<"u6559", "u7406">>,             \* 教理
    <<"u4f0a", "u65af", "u862d">> >>  \* 伊斯蘭

ultra_language_keywords == <<
    <<"u8a5e", "u5178">>,             \* 詞典
    <<"u5b57", "u5178">>,             \* 字典
    <<"u6587", "u6cd5">>,             \* 文法
    <<"u8a9e", "u6cd5">>,             \* 語法
    <<"u963f", "u6587">>,             \* 阿文
    <<"u963f", "u62c9", "u4f2f">>,    \* 阿拉伯
    <<"u6ce2", "u65af">> >>           \* 波斯

ultra_history_keywords == <<
    <<"u6b77", "u53f2">>,             \* 歷史
    <<"u53f2", "u7565">>,             \* 史略
    <<"u671d", "u89b2">>,             \* 朝覲
    <<"u904a", "u8a18">>,             \* 遊記
    <<"u50b3", "u8a18">> >>           \* 傳記

ultra_periodical_keywords == <<
    <<"u5831">>,                      \* 報
    <<"u6708", "u520a">>,             \* 月刊
    <<"u9031", "u520a">>,             \* 週刊
    <<"u96dc", "u8a8c">>,             \* 雜誌
    <<"u66f8", "u5831", "u793e">> >>  \* 書報社

ShuBaoShe == <<"u66f8", "u5831", "u793e">>    \* 書報社, tested in the publisher

\* generate_atlas_advanced.categorize_book: the four inline keyword lists
advanced_theology_keywords == <<
    <<"u5929", "u65b9">>,   \* 天方
    <<"u6e05", "u771f">>,   \* 清真
    <<"u7d93">>,            \* 經
    <<"u6559">>,            \* 教
    <<"u7406">>,            \* 理
    <<"u9053">>,            \* 道
    <<"u6cd5">>,            \* 法
    <<"u8056">> >>          \* 聖

advanced_history_keywords == <<
    <<"u53f2">>,            \* 史
    <<"u8a18">>,            \* 記
    <<"u904a">>,            \* 遊
    <<"u89b2">>,            \* 覲
    <<"u9014">>,            \* 途
    <<"u8a8c">> >>          \* 誌

advanced_language_keywords == <<
    <<"u5b57">>,            \* 字
    <<"u8a9e">>,            \* 語
    <<"u6587">>,            \* 文
    <<"u5178">>,            \* 典
    <<"u89e3">> >>          \* 解

advanced_periodical_keywords == <<
    <<"u5831">>,            \* 報
    <<"u520a">>,            \* 刊
    <<"u6708", "u520a">>,   \* 月刊
    <<"u9031", "u520a">> >> \* 週刊

\* generate_combined_map.categorize_book: the three keyword lists
combined_theology_keywords == <<
    <<"t", "i", "a", "n", "f", "a", "n", "g">>,
    <<"u5929", "u65b9">>,   \* 天方
    <<"i", "s", "l", "a", "m">>,
    <<"m", "u", "s", "l", "i", "m">>,
    <<"q", "u", "r", "a", "n">>,
    <<"k", "o", "r", "a", "n">>,
    <<"h", "a", "d", "i", "t", "h">>,
    <<"f", "a", "i", "t", "h">>,
    <<"r", "e", "l", "i", "g", "i", "o", "n">>,
    <<"t", "h", "e", "o", "l", "o", "g", "y">>,
    <<"u6559", "u7fa9">>,   \* 教義
    <<"u6559", "u7406">>,   \* 教理
    <<"u7d93", "u5178">>,   \* 經典
    <<"u6559", "u6cd5">>,   \* 教法
    <<"u771f", "u7406">>,   \* 真理
    <<"u5927", "u5178">> >> \* 大典

combined_language_keywords == <<
    <<"g", "r", "a", "m", "m", "a", "r">>,
    <<"l", "a", "n", "g", "u", "a", "g", "e">>,
    <<"d", "i", "c", "t", "i", "o", "n", "a", "r", "y">>,
    <<"v", "o", "c", "a", "b", "u", "l", "a", "r", "y">>,
    <<"u6587", "u6cd5">>,   \* 文法
    <<"u8a9e", "u6cd5">>,   \* 語法
    <<"u5b57", "u5178">>,   \* 字典
    <<"u8a5e", "u5178">>,   \* 詞典
    <<"u8a9e", "u8a00">> >> \* 語言

combined_history_keywords == <<
    <<"h", "i", "s", "t", "o", "r", "y">>,
    <<"t", "r", "a", "v", "e", "l">>,
    <<"j", "o", "u", "r", "n", "e", "y">>,
    <<"u6b77", "u53f2">>,   \* 歷史
    <<"u53f2">>,            \* 史
    <<"u904a", "u8a18">>,   \* 遊記
    <<"u65c5">> >>          \* 旅

UpperCase == <<"A", "B", "C", "D", "E", "F", "G", "H", "I", "J", "K", "L", "M",
               "N", "O", "P", "Q", "R", "S", "T", "U", "V", "W", "X", "Y", "Z">>
LowerCase == <<"a", "b", "c", "d", "e", "f", "g", "h", "i", "j", "k", "l", "m",
               "n", "o", "p", "q", "r", "s", "t", "u", "v", "w", "x", "y", "z">>

\* c.lower(): the characters of the keyword tables other than A-Z have no case
LowerChar(c) ==
    IF \E k \in 1..26 : UpperCase[k] = c
    THEN LowerCase[CHOOSE k \in 1..26 : UpperCase[k] = c]
    ELSE c

\* s.lower()
Lower(s) == [i \in 1..Len(s) |-> LowerChar(s[i])]

\* str(v)
ToStr(v) ==
    CASE v.kind = "str" -> v.s
      [] v.kind = "int" -> IntToStr(v.n)
      [] v.kind = "float" -> IntToStr(v.n) \o <<".", "0">>
      [] v.kind = "nan" -> <<"n", "a", "n">>
      [] v.kind = "None" -> <<"N", "o", "n", "e">>

\* a category label: a str literal of the source, kept as one TLA+ string
Label(l) == [kind |-> "label", text |-> l]

\* any(kw in s for kw in keywords)
AnyKeyword(keywords, s) == \E k \in 1..Len(keywords) : Contains(s, keywords[k])

\* generate_atlas_ultra.categorize_book(title, publisher='')
categorize_book_ultra(title, publisher) ==
    IF isna(title) THEN Label("General")
    ELSE LET title_str == Lower(ToStr(title))
             pub_str == Lower(ToStr(publisher))
         IN  IF AnyKeyword(ultra_periodical_keywords, title_str)
                    \/ Contains(pub_str, ShuBaoShe)
             THEN Label("Periodical")
             ELSE IF AnyKeyword(ultra_theology_keywords, title_str) THEN Label("Theology")
             ELSE IF AnyKeyword(ultra_language_keywords, title_str) THEN Label("Language")
             ELSE IF AnyKeyword(ultra_history_keywords, title_str) THEN Label("History")
             ELSE Label("General")

\* generate_atlas_advanced.categorize_book(title)
categorize_book_advanced(title) ==
    IF Falsy(title) \/ isna(title) THEN Label("general")
    ELSE LET t == Lower(ToStr(title))
         IN  IF AnyKeyword(advanced_theology_keywords, t) THEN Label("theology")
             ELSE IF AnyKeyword(advanced_history_keywords, t) THEN Label("history")
             ELSE IF AnyKeyword(advanced_language_keywords, t) THEN Label("language")
             ELSE IF AnyKeyword(advanced_periodical_keywords, t) THEN Label("periodical")
             ELSE Label("general")

\* generate_combined_map.categorize_book(title)
categorize_book_combined(title) ==
    IF title.kind # "str" THEN Label("General")
    ELSE LET title_lower == Lower(title.s)
         IN  IF AnyKeyword(combined_theology_keywords, title_lower) THEN Label("Theology")
             ELSE IF AnyKeyword(combined_language_keywords, title_lower) THEN Label("Language")
             ELSE IF AnyKeyword(combined_history_keywords, title_lower) THEN Label("History")
             ELSE Label("General")

-----------------------------------------------------------------------------
(* Inputs of the categorizers *)

\* titles are concatenations of at most this many pieces
MaxTitlePieces == 3

TianFang == <<"u5929", "u65b9">>    \* 天方
YuFa == <<"u8a9e", "u6cd5">>        \* 語法
LiShi == <<"u6b77", "u53f2">>       \* 歷史
YueKan == <<"u6708", "u520a">>      \* 月刊
ZiDian == <<"u5b57", "u5178">>      \* 字典

TitlePieces ==
    {TianFang, YuFa, LiShi, YueKan, ZiDian, ShuBaoShe,
     <<"I", "s", "l", "a", "m">>, <<"x">>}

\* the titles of the end-to-end example: 天方教典, 語法入門, 時事月刊
ExampleTitles ==
    {<<"u5929", "u65b9", "u6559", "u5178">>,
     <<"u8a9e", "u6cd5", "u5165", "u9580">>,
     <<"u6642", "u4e8b", "u6708", "u520a">>}

TitleInputs ==
    {PyStr(s) : s \in Concats(TitlePieces, MaxTitlePieces) \cup ExampleTitles}
        \cup {None, NaN, PyInt(0), PyInt(1919)}

PublisherInputs == {PyStr(<<>>), PyStr(ShuBaoShe), PyStr(YueKan), PyStr(<<"x">>), NaN}

InitCat ==
    /\ fn = ""
    /\ arg \in TitleInputs
    /\ arg2 \in PublisherInputs
    /\ ret = None
    /\ calls = 0
    /\ pipeIdle

CallCategorizeBookUltra ==
    /\ fn = ""
    /\ fn' = "ultra.categorize_book"
    /\ ret' = categorize_book_ultra(arg, arg2)
    /\ calls' = 1
    /\ UNCHANGED <<arg, arg2, pipeVars>>

\* the one-argument categorizers: no publisher is passed
CallCategorizeBookAdvanced ==
    /\ fn = ""
    /\ arg2 = PyStr(<<>>)
    /\ fn' = "advanced.categorize_book"
    /\ ret' = categorize_book_advanced(arg)
    /\ calls' = 1
    /\ UNCHANGED <<arg, arg2, pipeVars>>

CallCategorizeBookCombined ==
    /\ fn = ""
    /\ arg2 = PyStr(<<>>)
    /\ fn' = "combined.categorize_book"
    /\ ret' = categorize_book_combined(arg)
    /\ calls' = 1
    /\ UNCHANGED <<arg, arg2, pipeVars>>

NextCat ==
    \/ CallCategorizeBookUltra
    \/ CallCategorizeBookAdvanced
    \/ CallCategorizeBookCombined

SpecCat == InitCat /\ [][NextCat]_vars

-----------------------------------------------------------------------------
(* C5 *)

CatFns == {"ultra.categorize_book", "advanced.categorize_book", "combined.categorize_book"}

Categories == {"Theology", "Language", "History", "Periodical", "General"}

\* C5 as stated: for every title and secondary field each categorizer returns a
\* label of {Theology, Language, History, Periodical, General}.
C5_LabelInClosedSet ==
    (fn \in CatFns /\ calls = 1)
        => \E c \in Categories : ret = Label(c)

\* C5, categorizer by categorizer: the ultra categorizer returns a label of the
\* closed set; the advanced one returns one of the five labels in lower case; the
\* combined one returns Theology, Language, History or General and never Periodical.
C5_LabelInOwnSet ==
    /\ (fn = "ultra.categorize_book" /\ calls = 1)
            => \E c \in Categories : ret = Label(c)
    /\ (fn = "advanced.categorize_book" /\ calls = 1)
            => ret \in {Label("theology"), Label("language"), Label("history"),
                        Label("periodical"), Label("general")}
    /\ (fn = "combined.categorize_book" /\ calls = 1)
            => \E c \in Categories \ {"Periodical"} : ret = Label(c)

\* a missing title with a periodical publisher: the ultra categorizer answered General
C5_Witness ==
    /\ fn = "ultra.categorize_book"
    /\ arg = NaN
    /\ arg2 = PyStr(ShuBaoShe)
    /\ ret = Label("General")

\* each of the five labels is returned by the ultra categorizer for some title
C5_ReachTheology == fn = "ultra.categorize_book" /\ ret = Label("Theology")
C5_ReachLanguage == fn = "ultra.categorize_book" /\ ret = Label("Language")
C5_ReachHistory == fn = "ultra.categorize_book" /\ ret = Label("History")
C5_ReachPeriodical == fn = "ultra.categorize_book" /\ ret = Label("Periodical")
C5_ReachGeneral == fn = "ultra.categorize_book" /\ arg.kind = "str" /\ ret = Label("General")

-----------------------------------------------------------------------------
(* C6 *)

\* C6: a title holding a periodical keyword and a theology keyword is categorized
\* Periodical, never Theology (ultra and advanced categorizers, each with its own
\* keyword lists and its own spelling of the labels).
C6_PeriodicalBeatsTheology ==
    /\ (/\ fn = "ultra.categorize_book"
        /\ arg.kind = "str"
        /\ AnyKeyword(ultra_periodical_keywords, Lower(arg.s))
        /\ AnyKeyword(ultra_theology_keywords, Lower(arg.s)))
            => ret = Label("Periodical")
    /\ (/\ fn = "advanced.categorize_book"
        /\ arg.kind = "str"
        /\ AnyKeyword(advanced_periodical_keywords, Lower(arg.s))
        /\ AnyKeyword(advanced_theology_keywords, Lower(arg.s)))
            => ret = Label("periodical")

\* the ultra categorizer alone
C6_UltraPeriodicalBeatsTheology ==
    (/\ fn = "ultra.categorize_book"
     /\ arg.kind = "str"
     /\ AnyKeyword(ultra_periodical_keywords, Lower(arg.s))
     /\ AnyKeyword(ultra_theology_keywords, Lower(arg.s)))
        => ret = Label("Periodical")

-----------------------------------------------------------------------------
(* OCR entry segmenter: integrate_pdf_data.parse_catalog_entries *)

\* s.split(c): the pieces of s between the occurrences of the character c
RECURSIVE Split(_, _)
Split(s, c) ==
    LET at == {i \in 1..Len(s) : s[i] = c}
    IN  IF at = {} THEN <<s>>
        ELSE <<SubSeq(s, 1, Min(at) - 1)>> \o Split(SubSeq(s, Min(at) + 1, Len(s)), c)

\* 6[09][1-9T] at index i of the line
CodeAt(line, i) ==
    /\ i >= 1
    /\ i + 2 <= Len(line)
    /\ line[i] = "6"
    /\ line[i + 1] \in {"0", "9"}
    /\ line[i + 2] \in {"1", "2", "3", "4", "5", "6", "7", "8", "9", "T"}

\* ["\']?6[09][1-9T] at index i of the line
YearCodeAt(line, i) ==
    \/ CodeAt(line, i)
    \/ i <= Len(line) /\ line[i] \in {"\"", "'"} /\ CodeAt(line, i + 1)

\* re.search(r'["\']?6[09][1-9T]', line): the leftmost year code, quote included
year_match(line) ==
    LET starts == {i \in 1..Len(line) : YearCodeAt(line, i)}
    IN  IF starts = {} THEN NoMatch
        ELSE LET i == Min(starts)
             IN  Match(SubSeq(line, i, IF CodeAt(line, i) THEN i + 2 ELSE i + 3))

\* the empty dict {} with which current_entry starts
EmptyEntry == <<>>

\* the body of the for loop of parse_catalog_entries on one line: the new
\* current_entry and entries
parse_line(cur, acc, raw) ==
    LET line == Strip(raw)
    IN  IF line = <<>> THEN [current_entry |-> cur, entries |-> acc]
        ELSE IF year_match(line).found
        THEN [current_entry |-> [raw_line |-> line,
                                 year_code |-> year_match(line).group,
                                 text |-> line],
              entries |-> IF cur # EmptyEntry THEN Append(acc, cur) ELSE acc]
        ELSE IF cur # EmptyEntry
        THEN [current_entry |-> [cur EXCEPT !.text = cur.text \o <<" ">> \o line],
              entries |-> acc]
        ELSE [current_entry |-> cur, entries |-> acc]

\* a return that forgets the entry still being accumulated
parse_finish_no_flush(cur, acc) == acc

\* the end of parse_catalog_entries: the last entry is appended, entries returned
parse_finish(cur, acc) == IF cur # EmptyEntry THEN Append(acc, cur) ELSE acc

\* the for loop of parse_catalog_entries from line k on
RECURSIVE parse_loop(_, _, _, _)
parse_loop(ls, k, cur, acc) ==
    IF k > Len(ls) THEN parse_finish(cur, acc)
    ELSE LET st == parse_line(cur, acc, ls[k])
         IN  parse_loop(ls, k + 1, st.current_entry, st.entries)

\* parse_catalog_entries(pdf_text)
parse_catalog_entries(text) == parse_loop(Split(text, "\n"), 1, EmptyEntry, <<>>)

-----------------------------------------------------------------------------
(* Inputs and steps of the segmenter *)

\* OCR texts are concatenations of at most this many pieces
MaxTextPieces == 5

TextPieces ==
    {<<"6", "9", "1">>, <<"'", "6", "0", "T">>, <<"a">>, <<"b">>, <<" ">>, <<"\n">>}

TextInputs == Concats(TextPieces, MaxTextPieces)

callIdle ==
    /\ fn = ""
    /\ arg = None
    /\ arg2 = None
    /\ ret = None
    /\ calls = 0

InitSeg ==
    /\ callIdle
    /\ pdf_text \in TextInputs
    /\ lines = <<>>
    /\ pos = 0
    /\ current_entry = EmptyEntry
    /\ entries = <<>>
    /\ pc = "idle"
    /\ csv_data = <<>>
    /\ matches = <<>>

\* parse_catalog_entries is entered: entries = [], the text is split, current_entry = {}
ParseStart ==
    /\ pc = "idle"
    /\ lines' = Split(pdf_text, "\n")
    /\ pos' = 1
    /\ current_entry' = EmptyEntry
    /\ entries' = <<>>
    /\ pc' = "parsing"
    /\ UNCHANGED <<callVars, pdf_text, csv_data, matches>>

\* one iteration of the for loop
ParseLine ==
    /\ pc = "parsing"
    /\ pos <= Len(lines)
    /\ LET st == parse_line(current_entry, entries, lines[pos])
       IN  /\ current_entry' = st.current_entry
           /\ entries' = st.entries
    /\ pos' = pos + 1
    /\ UNCHANGED <<callVars, pdf_text, lines, pc, csv_data, matches>>

\* the loop is over: the last entry is flushed and entries returned
ParseReturn ==
    /\ pc = "parsing"
    /\ pos > Len(lines)
    /\ entries' = parse_finish(current_entry, entries)
    /\ pc' = "parsed"
    /\ UNCHANGED <<callVars, pdf_text, lines, pos, current_entry, csv_data, matches>>

NextSeg == ParseStart \/ ParseLine \/ ParseReturn

SpecSeg == InitSeg /\ [][NextSeg]_vars

-----------------------------------------------------------------------------
(* C7, C8 *)

\* the lines of the text as the loop sees them
StrippedLines(text) == [k \in 1..Len(Split(text, "\n")) |-> Strip(Split(text, "\n")[k])]

\* the indices of the lines that hold a year code
BoundaryLines(text) ==
    {k \in 1..Len(Split(text, "\n")) : year_match(Split(text, "\n")[k]).found}

NoBlankLine(text) == \A k \in 1..Len(StrippedLines(text)) : StrippedLines(text)[k] # <<>>

\* ' '.join(ls[k:])
RECURSIVE JoinFrom(_, _)
JoinFrom(ls, k) ==
    IF k > Len(ls) THEN <<>>
    ELSE IF k = Len(ls) THEN ls[k]
    ELSE ls[k] \o <<" ">> \o JoinFrom(ls, k + 1)

OneBoundaryNoBlank ==
    /\ pc = "parsed"
    /\ Cardinality(BoundaryLines(pdf_text)) = 1
    /\ NoBlankLine(pdf_text)

\* C7 as stated: with exactly one boundary line and no blank line the segmenter
\* returns one entry whose text is all the lines joined by single spaces, wherever
\* the boundary line stands.
C7_OneEntryAllLines ==
    OneBoundaryNoBlank
        => /\ Len(entries) = 1
           /\ entries[1].text = JoinFrom(StrippedLines(pdf_text), 1)

\* C7, from the boundary line on: with exactly one boundary line and no blank line
\* the segmenter returns one entry whose text is the boundary line and the lines
\* after it, each stripped, joined by single spaces; the lines before the boundary
\* line are in no entry, so the text is all the lines exactly when the boundary line
\* is the first.
C7_OneEntryFromBoundary ==
    OneBoundaryNoBlank
        => LET b == CHOOSE k \in BoundaryLines(pdf_text) : TRUE
           IN  /\ Len(entries) = 1
               /\ entries[1].text = JoinFrom(StrippedLines(pdf_text), b)
               /\ entries[1].raw_line = StrippedLines(pdf_text)[b]
               /\ (b = 1 <=> entries[1].text = JoinFrom(StrippedLines(pdf_text), 1))

\* a boundary line in the middle of three lines was segmented
C7_Witness ==
    /\ OneBoundaryNoBlank
    /\ Len(StrippedLines(pdf_text)) = 3
    /\ BoundaryLines(pdf_text) = {2}

\* C8: the segmenter returns as many entries as there are lines that match the
\* boundary pattern (none for the empty string and for blank lines only), and no
\* returned entry has empty text.
C8_EntriesCountBoundaries ==
    pc = "parsed"
        => /\ Len(entries) = Cardinality(BoundaryLines(pdf_text))
           /\ \A k \in 1..Len(entries) : entries[k].text # <<>>
           /\ (\A k \in 1..Len(StrippedLines(pdf_text)) : StrippedLines(pdf_text)[k] = <<>>)
                  => entries = <<>>

\* two boundary lines separated by a blank line gave two entries
C8_Witness ==
    /\ pc = "parsed"
    /\ Len(entries) = 2
    /\ \E k \in 1..Len(StrippedLines(pdf_text)) :
          /\ StrippedLines(pdf_text)[k] = <<>>
          /\ \E i, j \in BoundaryLines(pdf_text) : i < k /\ k < j

\* the empty string gave the empty sequence
C8_EmptyText == pc = "parsed" /\ pdf_text = <<>> /\ entries = <<>>

-----------------------------------------------------------------------------
(* difflib.SequenceMatcher(None, a, b).ratio(), as match_pdf_to_csv calls it *)

\* the largest member of a non-empty set of integers
Max(S) == CHOOSE m \in S : \A n \in S : m >= n

RECURSIVE Gcd(_, _)
Gcd(m, n) == IF n = 0 THEN m ELSE Gcd(n, m % n)

\* a float that is the quotient of two integers, kept as the reduced fraction
Score(num, den) == [num |-> num \div Gcd(num, den), den |-> den \div Gcd(num, den)]

ZeroScore == Score(0, 1)     \* 0 and 0.0
OneScore == Score(1, 1)      \* 1.0

\* a comparison that also accepts equal scores
ScoreGe(x, y) == x.num * y.den >= y.num * x.den

\* x > y
ScoreGt(x, y) == x.num * y.den > y.num * x.den

\* the elements of b that the automatic junk heuristic sets aside: with len(b) >= 200,
\* those that occur more than len(b) // 100 + 1 times
Popular(b) ==
    IF Len(b) >= 200
    THEN {c \in {b[j] : j \in 1..Len(b)} :
             Cardinality({k \in 1..Len(b) : b[k] = c}) > (Len(b) \div 100) + 1}
    ELSE {}

\* length of the common run of a and b that starts at (i, j), stays inside
\* a[..ahi], b[..bhi] and uses no popular element of b
RunLen(a, b, pop, i, j, ahi, bhi) ==
    LET lim == Min({ahi - i + 1, bhi - j + 1})
    IN  Min({k \in 0..(lim - 1) : a[i + k] # b[j + k] \/ b[j + k] \in pop} \cup {lim})

\* number of equal elements just before (i, j), inside a[alo..], b[blo..]
ExtendBack(a, b, i, j, alo, blo) ==
    LET lim == Min({i - alo, j - blo})
    IN  Min({k \in 0..(lim - 1) : a[i - k - 1] # b[j - k - 1]} \cup {lim})

\* number of equal elements from (i, j) on, inside a[..ahi], b[..bhi]
ExtendForward(a, b, i, j, ahi, bhi) ==
    LET lim == Min({ahi - i + 1, bhi - j + 1})
    IN  Min({k \in 0..(lim - 1) : a[i + k] # b[j + k]} \cup {lim})

\* SequenceMatcher.find_longest_match on a[alo..ahi], b[blo..bhi]: the longest block
\* free of popular elements, the one earliest in a and then earliest in b, extended
\* on both sides by equal elements
find_longest_match(a, b, pop, alo, ahi, blo, bhi) ==
    LET cand == {p \in (alo..ahi) \X (blo..bhi) : a[p[1]] = b[p[2]] /\ b[p[2]] \notin pop}
        len(p) == RunLen(a, b, pop, p[1], p[2], ahi, bhi)
        bestsize == IF cand = {} THEN 0 ELSE Max({len(p) : p \in cand})
        longest == {p \in cand : len(p) = bestsize}
        best == IF cand = {} THEN <<alo, blo>>
                ELSE CHOOSE p \in longest :
                        \A q \in longest : p[1] < q[1] \/ (p[1] = q[1] /\ p[2] <= q[2])
        back == ExtendBack(a, b, best[1], best[2], alo, blo)
        forward == ExtendForward(a, b, best[1] + bestsize, best[2] + bestsize, ahi, bhi)
    IN  [i |-> best[1] - back, j |-> best[2] - back, size |-> bestsize + back + forward]

\* SequenceMatcher.get_matching_blocks: the total size of the blocks found in
\* a[alo..ahi], b[blo..bhi], the longest first and then to its left and to its right
RECURSIVE MatchingSize(_, _, _, _, _, _, _)
MatchingSize(a, b, pop, alo, ahi, blo, bhi) ==
    LET m == find_longest_match(a, b, pop, alo, ahi, blo, bhi)
    IN  IF m.size = 0 THEN 0
        ELSE m.size
             + (IF alo < m.i /\ blo < m.j
                THEN MatchingSize(a, b, pop, alo, m.i - 1, blo, m.j - 1) ELSE 0)
             + (IF m.i + m.size <= ahi /\ m.j + m.size <= bhi
                THEN MatchingSize(a, b, pop, m.i + m.size, ahi, m.j + m.size, bhi) ELSE 0)

\* a ratio that forgets to count the matches on both sides
ratio_not_doubled(a, b) ==
    IF Len(a) + Len(b) = 0 THEN OneScore
    ELSE Score(MatchingSize(a, b, Popular(b), 1, Len(a), 1, Len(b)), Len(a) + Len(b))

\* SequenceMatcher(None, a, b).ratio() = 2.0 * matches / (len(a) + len(b)), 1.0 when
\* both are empty
ratio(a, b) ==
    IF Len(a) + Len(b) = 0 THEN OneScore
    ELSE Score(2 * MatchingSize(a, b, Popular(b), 1, Len(a), 1, Len(b)), Len(a) + Len(b))

-----------------------------------------------------------------------------
(* Fuzzy record linker: integrate_pdf_data.match_pdf_to_csv and                *)
(* enhance_records_with_pdf                                                    *)

\* the similarity threshold 0.3 of match_pdf_to_csv, as the fraction 3 / 10
ThresholdNum == 3
ThresholdDen == 10
Threshold == [num |-> ThresholdNum, den |-> ThresholdDen]

\* no entry chosen yet (best_match = None)
NoBest == [found |-> FALSE, entry |-> EmptyEntry, score |-> ZeroScore]

\* entry.get('text', '')
EntryText(entry) == IF entry = EmptyEntry THEN <<>> ELSE entry.text

\* an inner loop that also replaces the best entry by one of equal score
RECURSIVE best_of_last_wins(_, _, _, _)
best_of_last_wins(title, pdf_entries, k, best) ==
    IF k > Len(pdf_entries) THEN best
    ELSE LET score == ratio(title, EntryText(pdf_entries[k]))
         IN  best_of_last_wins(title, pdf_entries, k + 1,
                               IF ScoreGe(score, best.score)
                               THEN [found |-> TRUE, entry |-> pdf_entries[k], score |-> score]
                               ELSE best)

\* the inner for loop of match_pdf_to_csv from entry k on: best_match and best_score
RECURSIVE best_of(_, _, _, _)
best_of(title, pdf_entries, k, best) ==
    IF k > Len(pdf_entries) THEN best
    ELSE LET score == ratio(title, EntryText(pdf_entries[k]))
         IN  best_of(title, pdf_entries, k + 1,
                     IF ScoreGt(score, best.score)
                     THEN [found |-> TRUE, entry |-> pdf_entries[k], score |-> score]
                     ELSE best)

\* the matches of one row when the append stands inside the inner loop: one for
\* every entry from k on that scores above the threshold
RECURSIVE matches_above(_, _, _, _)
matches_above(title, pdf_entries, k, index) ==
    IF k > Len(pdf_entries) THEN <<>>
    ELSE (IF ScoreGt(ratio(title, EntryText(pdf_entries[k])), Threshold)
          THEN <<[csv_index |-> index, pdf_entry |-> pdf_entries[k],
                  confidence |-> ratio(title, EntryText(pdf_entries[k]))]>>
          ELSE <<>>)
         \o matches_above(title, pdf_entries, k + 1, index)

match_row_append_in_loop(pdf_entries, row, index) ==
    LET title == Strip(ToStr(row.title))
    IN  IF title = <<>> THEN <<>> ELSE matches_above(title, pdf_entries, 1, index)

\* the body of the outer for loop of match_pdf_to_csv on one row: the matches it
\* appends (none or one)
match_row(pdf_entries, row, index) ==
    LET title == Strip(ToStr(row.title))
        best == best_of(title, pdf_entries, 1, NoBest)
    IN  IF title = <<>> THEN <<>>
        ELSE IF best.found /\ best.entry # EmptyEntry /\ ScoreGt(best.score, Threshold)
        THEN <<[csv_index |-> index, pdf_entry |-> best.entry, confidence |-> best.score]>>
        ELSE <<>>

\* the outer for loop of match_pdf_to_csv from row k on
RECURSIVE match_loop(_, _, _)
match_loop(pdf_entries, rows, k) ==
    IF k > Len(rows) THEN <<>>
    ELSE match_row(pdf_entries, rows[k], k) \o match_loop(pdf_entries, rows, k + 1)

\* match_pdf_to_csv(pdf_entries, csv_data)
match_pdf_to_csv(pdf_entries, rows) == match_loop(pdf_entries, rows, 1)

\* the first n characters, s[:n]
Prefix(s, n) == SubSeq(s, 1, IF Len(s) < n THEN Len(s) ELSE n)

\* the columns enhance_records_with_pdf has not added yet
Absent == [kind |-> "absent"]

\* the for loop of enhance_records_with_pdf from match i on
RECURSIVE enhance_loop(_, _, _)
enhance_loop(rows, pdf_matches, i) ==
    IF i > Len(pdf_matches) THEN rows
    ELSE LET m == pdf_matches[i]
         IN  enhance_loop(
                 [rows EXCEPT ![m.csv_index] =
                     [@ EXCEPT !.pdf_confirmed = TRUE,
                               !.pdf_confidence = m.confidence,
                               !.pdf_catalog_entry =
                                   Prefix(IF m.pdf_entry = EmptyEntry THEN <<>>
                                          ELSE m.pdf_entry.raw_line, 200)]],
                 pdf_matches, i + 1)

\* an annotation that writes the defaults only on the first call on a batch, and
\* keeps what an earlier call wrote
enhance_records_keep_earlier(rows, pdf_matches) ==
    enhance_loop(IF pc \in {"enhanced", "enhanced again"}
                 THEN rows
                 ELSE [k \in 1..Len(rows) |->
                          [rows[k] EXCEPT !.pdf_confirmed = FALSE,
                                          !.pdf_confidence = ZeroScore,
                                          !.pdf_catalog_entry = <<>>]],
                 pdf_matches, 1)

\* an annotation whose default for pdf_confirmed is True
enhance_records_default_confirmed(rows, pdf_matches) ==
    enhance_loop([k \in 1..Len(rows) |->
                     [rows[k] EXCEPT !.pdf_confirmed = TRUE,
                                     !.pdf_confidence = ZeroScore,
                                     !.pdf_catalog_entry = <<>>]],
                 pdf_matches, 1)

\* enhance_records_with_pdf(csv_data, pdf_matches)
enhance_records_with_pdf(rows, pdf_matches) ==
    enhance_loop([k \in 1..Len(rows) |->
                     [rows[k] EXCEPT !.pdf_confirmed = FALSE,
                                     !.pdf_confidence = ZeroScore,
                                     !.pdf_catalog_entry = <<>>]],
                 pdf_matches, 1)

-----------------------------------------------------------------------------
(* Inputs and steps of the linking pass: integrate_pdf_data_main *)

\* OCR texts of the linking pass are made of at most this many lines
MaxLinkPieces == 2
\* largest number of records in a batch
MaxRecords == 2

\* the lines of these texts: two lines with a year code, a line without, a blank line
LinkPieces == {<<"6", "9", "1", "\n">>, <<"6", "9", "T", "a", "\n">>, <<"b", "\n">>, <<"\n">>}

\* s repeated n times
RECURSIVE Repeat(_, _)
Repeat(s, n) == IF n = 0 THEN <<>> ELSE s \o Repeat(s, n - 1)

\* a line of 200 characters, each of them frequent enough to be set aside as popular
LongLine == Repeat(<<"6", "9", "1", "a">>, 50)

\* a line of 17 characters that shares its year code, and nothing else, with the
\* title "691": 2 * 3 matching characters out of 3 + 17, a similarity of exactly 0.3
ThresholdLine == <<"6", "9", "1">> \o Repeat(<<"a">>, 14)

\* two lines with the same year code: the title "691" is as similar to one as to
\* the other
TieText == <<"6", "9", "1", "a", "\n", "6", "9", "1", "b", "\n">>

LinkTexts == Concats(LinkPieces, MaxLinkPieces) \cup {LongLine, ThresholdLine, TieText}

\* the titles a batch is drawn from: a missing cell, an empty title, a title that
\* shares no character with any entry, a padded title, and the text and the year
\* code of every entry of the OCR text
TitlePool(text) ==
    LET es == parse_catalog_entries(text)
    IN  {NaN, PyStr(<<>>), PyStr(<<"z", "z">>), PyStr(<<" ", "b">>)}
            \cup {PyStr(es[k].text) : k \in 1..Len(es)}
            \cup {PyStr(es[k].year_code) : k \in 1..Len(es)}

\* a row as read from the CSV file
NewRow(title) ==
    [title |-> title, pdf_confirmed |-> Absent, pdf_confidence |-> Absent,
     pdf_catalog_entry |-> Absent]

\* all batches of at most n rows with titles of the pool
RECURSIVE Batches(_, _)
Batches(pool, n) ==
    IF n = 0 THEN {<<>>}
    ELSE LET shorter == Batches(pool, n - 1)
         IN  shorter \cup {Append(rows, NewRow(t)) : rows \in shorter, t \in pool}

InitLink ==
    /\ callIdle
    /\ pdf_text \in LinkTexts
    /\ lines = <<>>
    /\ pos = 0
    /\ current_entry = EmptyEntry
    /\ entries = <<>>
    /\ pc = "idle"
    /\ csv_data \in Batches(TitlePool(pdf_text), MaxRecords)
    /\ matches = <<>>

\* catalog_entries = parse_catalog_entries(full_text)
ParseCatalogEntries ==
    /\ pc = "idle"
    /\ entries' = parse_catalog_entries(pdf_text)
    /\ pc' = "parsed"
    /\ UNCHANGED <<callVars, pdf_text, lines, pos, current_entry, csv_data, matches>>

\* matches = match_pdf_to_csv(catalog_entries, df)
MatchPdfToCsv ==
    /\ pc = "parsed"
    /\ matches' = match_pdf_to_csv(entries, csv_data)
    /\ pc' = "matched"
    /\ UNCHANGED <<callVars, pdf_text, lines, pos, current_entry, entries, csv_data>>

\* enhanced_df = enhance_records_with_pdf(df, matches)
EnhanceRecords ==
    /\ pc = "matched"
    /\ csv_data' = enhance_records_with_pdf(csv_data, matches)
    /\ pc' = "enhanced"
    /\ UNCHANGED <<callVars, pdf_text, lines, pos, current_entry, entries, matches>>

\* confirmed = enhanced_df['pdf_confirmed'].sum()
Confirmed(rows) == Cardinality({k \in 1..Len(rows) : rows[k].pdf_confirmed = TRUE})

\* x + y
ScoreAdd(x, y) == Score(x.num * y.den + y.num * x.den, x.den * y.den)

\* the sum of pdf_confidence over the confirmed rows from row k on
RECURSIVE ConfidenceSum(_, _)
ConfidenceSum(rows, k) ==
    IF k > Len(rows) THEN ZeroScore
    ELSE IF rows[k].pdf_confirmed = TRUE
         THEN ScoreAdd(rows[k].pdf_confidence, ConfidenceSum(rows, k + 1))
         ELSE ConfidenceSum(rows, k + 1)

\* confirmed/total*100: with total = 0 the quotient 0/0 is nan when the sum is a
\* numpy integer and a ZeroDivisionError when it is a Python int, which depends on
\* the dtype pandas gives the column of an empty frame
Percentages(confirmed, total) ==
    IF total = 0 THEN {NaN, Raised("ZeroDivisionError")}
    ELSE {Score(confirmed * 100, total)}

\* enhanced_df[enhanced_df['pdf_confirmed']]['pdf_confidence'].mean(): nan over no
\* row
AverageConfidence(rows) ==
    IF Confirmed(rows) = 0 THEN NaN
    ELSE LET total == ConfidenceSum(rows, 1)
         IN  Score(total.num, total.den * Confirmed(rows))

\* the statistics integrate_pdf_data_main prints before it returns enhanced_df
IntegrationStatistics ==
    /\ pc = "enhanced"
    /\ \E percent \in Percentages(Confirmed(csv_data), Len(csv_data)) :
          IF percent = Raised("ZeroDivisionError")
          THEN /\ pc' = "raised"
               /\ ret' = percent
          ELSE /\ pc' = "reported"
               /\ ret' = [kind |-> "statistics",
                          total |-> Len(csv_data),
                          confirmed |-> Confirmed(csv_data),
                          percent |-> percent,
                          average |-> AverageConfidence(csv_data)]
    /\ UNCHANGED <<fn, arg, arg2, calls, pdf_text, lines, pos, current_entry, entries,
                   csv_data, matches>>

NextLink == ParseCatalogEntries \/ MatchPdfToCsv \/ EnhanceRecords \/ IntegrationStatistics

SpecLink == InitLink /\ [][NextLink]_vars

-----------------------------------------------------------------------------
(* C9, C10 *)

\* rows whose title is exactly the accumulated text of some entry
TitleIsEntryText(k) ==
    /\ csv_data[k].title.kind = "str"
    /\ \E e \in 1..Len(entries) : csv_data[k].title.s = entries[e].text

\* C9: when a record's title equals the accumulated text of a catalog entry, the
\* linker computes similarity 1.0 for the pair and the record is matched and
\* confirmed with confidence 1.0.
C9_EqualTitleConfirmed ==
    pc = "enhanced"
        => \A k \in 1..Len(csv_data) :
              TitleIsEntryText(k)
                  => /\ \A e \in 1..Len(entries) :
                            csv_data[k].title.s = entries[e].text
                                => ratio(Strip(ToStr(csv_data[k].title)), entries[e].text)
                                       = OneScore
                     /\ \E i \in 1..Len(matches) :
                            /\ matches[i].csv_index = k
                            /\ matches[i].confidence = OneScore
                     /\ csv_data[k].pdf_confirmed = TRUE
                     /\ csv_data[k].pdf_confidence = OneScore

\* a record whose title is the text of the second of two different entries was
\* confirmed
C9_Witness ==
    /\ pc = "enhanced"
    /\ Len(entries) = 2
    /\ entries[1].text # entries[2].text
    /\ \E k \in 1..Len(csv_data) :
          /\ csv_data[k].title = PyStr(entries[2].text)
          /\ csv_data[k].pdf_confirmed = TRUE

\* the same for the line of 200 characters, where the popularity heuristic applies
C9_WitnessLongLine ==
    /\ pc = "enhanced"
    /\ pdf_text = LongLine
    /\ \E k \in 1..Len(csv_data) :
          /\ csv_data[k].title = PyStr(LongLine)
          /\ csv_data[k].pdf_confirmed = TRUE

\* C10: in the result of one linking pass every record index appears in at most one
\* match.
C10_OneMatchPerRecord ==
    pc \in {"matched", "enhanced"}
        => \A i, j \in 1..Len(matches) :
              matches[i].csv_index = matches[j].csv_index => i = j

\* two records were matched while two entries scored above the threshold for one
\* of them
C10_Witness ==
    /\ pc = "matched"
    /\ Len(matches) = 2
    /\ \E k \in 1..Len(csv_data) :
          Cardinality({e \in 1..Len(entries) :
              ScoreGt(ratio(Strip(ToStr(csv_data[k].title)), entries[e].text), Threshold)}) >= 2

-----------------------------------------------------------------------------
(* C11 *)

\* C11: in the result of one linking pass no catalog entry is the matched entry of
\* two different records. (The inner loop keeps the first entry that reaches the best
\* score, so two matches hold equal entries exactly when they hold the same entry.)
C11_EntryClaimedOnce ==
    pc \in {"matched", "enhanced"}
        => \A i, j \in 1..Len(matches) :
              matches[i].pdf_entry = matches[j].pdf_entry => i = j

-----------------------------------------------------------------------------
(* C12 *)

\* the title match_pdf_to_csv compares for record k
TitleOf(k) == Strip(ToStr(csv_data[k].title))

\* the similarity scores of record k against all entries
ScoresOf(k) == {ratio(TitleOf(k), entries[e].text) : e \in 1..Len(entries)}

\* record k has a match
Matched(k) == \E i \in 1..Len(matches) : matches[i].csv_index = k

\* C12: the linker records a Match for a record if and only if the record's best
\* similarity score over all entries is strictly greater than 0.30 (a best score of
\* exactly 0.30 or less yields no Match), the recorded confidence is that best score,
\* and every recorded confidence is > 0.30 and <= 1.0.
C12_MatchIffAboveThreshold ==
    pc \in {"matched", "enhanced"}
        => \A k \in 1..Len(csv_data) :
              LET scores == ScoresOf(k)
                  mine == {i \in 1..Len(matches) : matches[i].csv_index = k}
              IN  /\ mine # {} <=> \E x \in scores : ScoreGt(x, Threshold)
                  /\ \A i \in mine :
                        /\ matches[i].confidence \in scores
                        /\ \A x \in scores : ~ScoreGt(x, matches[i].confidence)
                        /\ ScoreGt(matches[i].confidence, Threshold)
                        /\ ~ScoreGt(matches[i].confidence, OneScore)

\* a record whose best score is exactly 0.30 got no match, next to a record that
\* got one
C12_Witness ==
    /\ pc = "matched"
    /\ \E k \in 1..Len(csv_data) :
          /\ ScoresOf(k) = {Threshold}
          /\ ~Matched(k)
    /\ \E k \in 1..Len(csv_data) : Matched(k)

-----------------------------------------------------------------------------
(* C13 *)

\* the characters of a string
Chars(s) == {s[i] : i \in 1..Len(s)}

\* record k shares no character with any entry
NoOverlap(k) == \A e \in 1..Len(entries) : Chars(TitleOf(k)) \cap Chars(entries[e].text) = {}

\* the link fields of a record no match was written to
Unconfirmed(row) ==
    /\ row.pdf_confirmed = FALSE
    /\ row.pdf_confidence = ZeroScore
    /\ row.pdf_catalog_entry = <<>>

\* C13: after linking and annotation every record for which no entry scores above
\* the threshold (in particular one sharing no character with any entry, or any
\* record when there are no entries) has confirmed = false, confidence = 0.0 and an
\* empty excerpt; confirmed = true holds exactly for the records that have a Match.
C13_UnmatchedStaysUnconfirmed ==
    pc = "enhanced"
        => \A k \in 1..Len(csv_data) :
              /\ (\A x \in ScoresOf(k) : ~ScoreGt(x, Threshold)) => Unconfirmed(csv_data[k])
              /\ NoOverlap(k) => Unconfirmed(csv_data[k])
              /\ entries = <<>> => Unconfirmed(csv_data[k])
              /\ csv_data[k].pdf_confirmed \in BOOLEAN
              /\ csv_data[k].pdf_confirmed = TRUE <=> Matched(k)
              /\ ~Matched(k) => Unconfirmed(csv_data[k])

\* next to a confirmed record, a record that shares no character with the entries
\* was left unconfirmed
C13_Witness ==
    /\ pc = "enhanced"
    /\ entries # <<>>
    /\ \E k, j \in 1..Len(csv_data) :
          /\ TitleOf(k) # <<>>
          /\ NoOverlap(k)
          /\ Unconfirmed(csv_data[k])
          /\ csv_data[j].pdf_confirmed = TRUE

\* a batch was annotated against zero entries
C13_WitnessNoEntries ==
    /\ pc = "enhanced"
    /\ entries = <<>>
    /\ Len(csv_data) = MaxRecords
    /\ \A k \in 1..Len(csv_data) : Unconfirmed(csv_data[k])

-----------------------------------------------------------------------------
(* Batch normalization pass: generate_atlas_advanced.read_and_process_csv    *)

\* generate_atlas_advanced: CITY_COORDINATES, in insertion order (degrees * 10^4)
ADVANCED_CITY_COORDINATES == <<
    [name |-> <<"u5317", "u4eac">>, lat |-> 399042, lon |-> 1164074],   \* 北京
    [name |-> <<"u5317", "u5e73">>, lat |-> 399042, lon |-> 1164074],   \* 北平
    [name |-> <<"u4e0a", "u6d77">>, lat |-> 312304, lon |-> 1214737],   \* 上海
    [name |-> <<"u5929", "u6d25">>, lat |-> 393434, lon |-> 1173616],   \* 天津
    [name |-> <<"u5357", "u4eac">>, lat |-> 320603, lon |-> 1187969],   \* 南京
    [name |-> <<"u6210", "u90fd">>, lat |-> 305728, lon |-> 1040668],   \* 成都
    [name |-> <<"u9326", "u6c5f">>, lat |-> 305728, lon |-> 1040668],   \* 錦江
    [name |-> <<"u9326", "u57ce">>, lat |-> 305728, lon |-> 1040668],   \* 錦城
    [name |-> <<"u84c9", "u57ce">>, lat |-> 305728, lon |-> 1040668],   \* 蓉城
    [name |-> <<"u9577", "u6c99">>, lat |-> 282282, lon |-> 1129388],   \* 長沙
    [name |-> <<"u661f", "u6c99">>, lat |-> 282282, lon |-> 1129388],   \* 星沙
    [name |-> <<"u5949", "u5929">>, lat |-> 418057, lon |-> 1234328],   \* 奉天
    [name |-> <<"u700b", "u967d">>, lat |-> 418057, lon |-> 1234328],   \* 瀋陽
    [name |-> <<"u93ae", "u6c5f">>, lat |-> 322109, lon |-> 1194552],   \* 鎮江
    [name |-> <<"u6f64", "u5dde">>, lat |-> 322109, lon |-> 1194552],   \* 潤州
    [name |-> <<"u4eac", "u53e3">>, lat |-> 322109, lon |-> 1194552],   \* 京口
    [name |-> <<"u4eac", "u6c5f">>, lat |-> 322109, lon |-> 1194552],   \* 京江
    [name |-> <<"u96f2", "u5357">>, lat |-> 250406, lon |-> 1027125],   \* 雲南
    [name |-> <<"u6ec7", "u7701">>, lat |-> 250406, lon |-> 1027125],   \* 滇省
    [name |-> <<"u5c0e", "u6cb3">>, lat |-> 362988, lon |-> 1029883],   \* 導河
    [name |-> <<"u5ee3", "u5dde">>, lat |-> 231291, lon |-> 1132644],   \* 廣州
    [name |-> <<"u7cb5", "u6771", "u7701", "u57ce">>, lat |-> 231291, lon |-> 1132644],   \* 粵東省城
    [name |-> <<"u5ee3", "u9091">>, lat |-> 231291, lon |-> 1132644],   \* 廣邑
    [name |-> <<"u9999", "u6e2f">>, lat |-> 223193, lon |-> 1141694],   \* 香港
    [name |-> <<"u71d5", "u6e56">>, lat |-> 399042, lon |-> 1164074] >>   \* 燕湖

\* generate_atlas_advanced: LIBRARY_COORDINATES, in insertion order (degrees * 10^4)
LIBRARY_COORDINATES == <<
    [name |-> <<"u5929", "u7406", "u5927", "u5b78">>, lat |-> 345970, lon |-> 1358376],   \* 天理大學
    [name |-> <<"u5929", "u7406", "u5927", "u5b78", "u5716", "u66f8", "u9928">>, lat |-> 345970, lon |-> 1358376],   \* 天理大學圖書館
    [name |-> <<"T", "e", "n", "r", "i", " ", "U", "n", "i", "v", "e", "r", "s", "i", "t", "y">>, lat |-> 345970, lon |-> 1358376],   \* Tenri University
    [name |-> <<"u5927", "u962a", "u5927", "u5b78">>, lat |-> 348218, lon |-> 1355228],   \* 大阪大學
    [name |-> <<"O", "s", "a", "k", "a", " ", "U", "n", "i", "v", "e", "r", "s", "i", "t", "y">>, lat |-> 348218, lon |-> 1355228],   \* Osaka University
    [name |-> <<"u9f8d", "u8c37", "u5927", "u5b78">>, lat |-> 349807, lon |-> 1357556],   \* 龍谷大學
    [name |-> <<"R", "y", "u", "k", "o", "k", "u", " ", "U", "n", "i", "v", "e", "r", "s", "i", "t", "y">>, lat |-> 349807, lon |-> 1357556],   \* Ryukoku University
    [name |-> <<"u6771", "u6d0b", "u6587", "u5eab">>, lat |-> 357339, lon |-> 1397544],   \* 東洋文庫
    [name |-> <<"T", "u014d", "y", "u014d", " ", "B", "u", "n", "k", "o">>, lat |-> 357339, lon |-> 1397544],   \* Tōyō Bunko
    [name |-> <<"N", "e", "w", " ", "Y", "o", "r", "k", " ", "P", "u", "b", "l", "i", "c", " ", "L", "i", "b", "r", "a", "r", "y">>, lat |-> 407532, lon |-> -739822],   \* New York Public Library
    [name |-> <<"H", "a", "r", "v", "a", "r", "d", "-", "Y", "e", "n", "c", "h", "i", "n", "g", " ", "L", "i", "b", "r", "a", "r", "y">>, lat |-> 423770, lon |-> -711167],   \* Harvard-Yenching Library
    [name |-> <<"B", "r", "i", "t", "i", "s", "h", " ", "L", "i", "b", "r", "a", "r", "y">>, lat |-> 515299, lon |-> -1271],   \* British Library
    [name |-> <<"B", "i", "b", "l", "i", "o", "t", "h", "u00e8", "q", "u", "e", " ", "n", "a", "t", "i", "o", "n", "a", "l", "e", " ", "d", "e", " ", "F", "r", "a", "n", "c", "e">>, lat |-> 488338, lon |-> 23765] >>   \* Bibliothèque nationale de France

\* geocode_library: japanese_institutions, in insertion order
japanese_institutions == <<
    [name |-> <<"u5929", "u7406">>, lat |-> 345970, lon |-> 1358376],   \* 天理
    [name |-> <<"u5927", "u962a">>, lat |-> 348218, lon |-> 1355228],   \* 大阪
    [name |-> <<"u9f8d", "u8c37">>, lat |-> 349807, lon |-> 1357556],   \* 龍谷
    [name |-> <<"u6771", "u6d0b", "u6587", "u5eab">>, lat |-> 357339, lon |-> 1397544] >>   \* 東洋文庫

\* dict.get(key) on a table of coordinates: the (lat, lon) pair, or None
CoordsGet(table, key) ==
    IF \E k \in 1..Len(table) : table[k].name = key
    THEN LET k == CHOOSE k \in 1..Len(table) : table[k].name = key
         IN  [kind |-> "coords", lat |-> table[k].lat, lon |-> table[k].lon]
    ELSE None

\* generate_atlas_advanced.geocode_city(city_name)
geocode_city_advanced(city_name) ==
    IF Falsy(city_name) THEN None ELSE CoordsGet(ADVANCED_CITY_COORDINATES, city_name.s)

\* the coordinates of the first of the rows hits of a table, or None
FirstCoords(table, hits) ==
    IF hits = {} THEN None
    ELSE LET k == Min(hits)
         IN  [kind |-> "coords", lat |-> table[k].lat, lon |-> table[k].lon]

\* generate_atlas_advanced.geocode_library(library_name)
geocode_library(library_name) ==
    IF Falsy(library_name) \/ isna(library_name) THEN None
    ELSE LET name == Strip(ToStr(library_name))
             exact == CoordsGet(LIBRARY_COORDINATES, name)
             japanese ==
                 FirstCoords(japanese_institutions,
                             {k \in 1..Len(japanese_institutions) :
                                 Contains(name, japanese_institutions[k].name)})
             Fuzzy(lib_key) == \/ Contains(Lower(name), Lower(lib_key))
                               \/ Contains(Lower(lib_key), Lower(name))
         IN  IF exact # None THEN exact
             ELSE IF japanese # None THEN japanese
             ELSE FirstCoords(LIBRARY_COORDINATES,
                              {k \in 1..Len(LIBRARY_COORDINATES) :
                                  Fuzzy(LIBRARY_COORDINATES[k].name)})

\* x[0] if x else None, x[1] if x else None
LatOf(x) == IF x = None THEN None ELSE PyInt(x.lat)
LonOf(x) == IF x = None THEN None ELSE PyInt(x.lon)

\* s.replace('.', '')
RemoveDots(s) == SelectSeq(s, LAMBDA c : c # ".")

\* s.isdigit()
IsDigits(s) == s # <<>> /\ \A i \in 1..Len(s) : IsDigit(s[i])

\* int(v) of a year cell whose text without dots is all digits: a number converts,
\* a str converts unless it holds a dot
IntOfYear(v) ==
    IF v.kind \in {"int", "float"} THEN PyInt(v.n)
    ELSE IF IsDigits(v.s) THEN PyInt(ParseInt(v.s))
    ELSE Raised("ValueError")

\* the fallback of the Year_Final lambda: int(row['Year_Western']) if
\* pd.notna(...) and str(...).replace('.', '').isdigit() else None
WesternYear(v) ==
    IF ~isna(v) /\ IsDigits(RemoveDots(ToStr(v))) THEN IntOfYear(v) ELSE None

\* the Year_Parsed column as the frame stores the results of parse_chinese_era: a
\* column of integers and None is numeric, its integers floats and its None NaN; a
\* column of integers only, or of None only, keeps its values
YearParsedColumn(results) ==
    IF /\ \E k \in 1..Len(results) : results[k].kind = "int"
       /\ \E k \in 1..Len(results) : results[k].kind = "None"
    THEN [k \in 1..Len(results) |->
             IF results[k].kind = "int" THEN PyFloat(results[k].n) ELSE NaN]
    ELSE results

\* the Year_Final lambda on one row
YearFinal(row) ==
    IF ~Falsy(row.Year_Parsed) THEN row.Year_Parsed ELSE WesternYear(row.Year_Western)

\* a column that holds an exception: apply() did not return
Raises(column) == \E k \in 1..Len(column) : column[k].kind = "raise"
FirstRaised(column) == column[Min({k \in 1..Len(column) : column[k].kind = "raise"})]

\* largest number of records of a batch given to read_and_process_csv
MaxBatch == 2

LuoYang == <<"u6d1b", "u967d">>                     \* 洛陽, a city outside the registry
GengShen == <<"u5e9a", "u7533">>                    \* 庚申, a date without an era name
MinGuo8 == MinGuo \o <<"8">> \o Nian                \* 民國8年
TianLi == <<"u5929", "u7406", "u5927", "u5b78">>    \* 天理大學

\* a record as read from the CSV file, the columns of the pass not yet added
RawRow(title, city, era, year, library) ==
    [Title |-> title, City |-> city, Era |-> era, Year_Western |-> year,
     Library |-> library,
     City_Clean |-> Absent, Coordinates |-> Absent, Latitude |-> Absent,
     Longitude |-> Absent, Year_Parsed |-> Absent, Year_Final |-> Absent,
     Category |-> Absent, Library_Coords |-> Absent, Library_Lat |-> Absent,
     Library_Lon |-> Absent]

CityCells == {NaN, PyStr(BeiPing), PyStr(LuoYang), PyStr(Placeholder), PyStr(<<" ">>), PyInt(5)}
EraCells == {NaN, PyStr(MinGuo8), PyStr(GengShen), PyInt(8)}
YearCells == {NaN, PyFloat(1919), PyInt(1919), PyStr(<<"1", "9", "1", "9">>),
              PyStr(<<"1", "9", "1", "9", ".", "0">>),
              PyStr(<<"c", ".", "1", "9", "1", "9">>)}
TitleCells == {NaN, PyStr(TianFang), PyInt(5)}
LibraryCells == {NaN, PyStr(TianLi), PyStr(<<" ">>), PyStr(<<"u5929", "u7406">>),
                 PyStr(<<"L", "i", "b">>), PyStr(<<"z", "z">>)}

\* the records of the batches: one resolvable record with each group of fields
\* varied in turn
BatchRows ==
    {RawRow(PyStr(TianFang), c, PyStr(MinGuo8), NaN, PyStr(TianLi)) : c \in CityCells}
        \cup {RawRow(PyStr(TianFang), PyStr(BeiPing), e, y, PyStr(TianLi)) :
                 e \in EraCells, y \in YearCells}
        \cup {RawRow(t, PyStr(BeiPing), PyStr(MinGuo8), NaN, PyStr(TianLi)) : t \in TitleCells}
        \cup {RawRow(PyStr(TianFang), PyStr(BeiPing), PyStr(MinGuo8), NaN, l) :
                 l \in LibraryCells}

\* all batches of 1 to n records
RECURSIVE RawBatches(_)
RawBatches(n) ==
    IF n = 1 THEN {<<r>> : r \in BatchRows}
    ELSE RawBatches(n - 1) \cup {Append(b, r) : b \in RawBatches(n - 1), r \in BatchRows}

\* text that pd.read_csv reads as a number: digits with at most one dot
NumericText(s) ==
    /\ IsDigits(RemoveDots(s))
    /\ Cardinality({i \in 1..Len(s) : s[i] = "."}) <= 1

\* the cells of one column as pd.read_csv types them: integers only; floats and
\* missing cells; or non-empty text and missing cells, with some text that is not
\* a number
ColumnTyped(cells) ==
    \/ \A k \in 1..Len(cells) : cells[k].kind = "int"
    \/ \A k \in 1..Len(cells) : cells[k].kind \in {"float", "nan"}
    \/ /\ \A k \in 1..Len(cells) :
              cells[k].kind = "nan" \/ (cells[k].kind = "str" /\ cells[k].s # <<>>)
       /\ \E k \in 1..Len(cells) : cells[k].kind = "str" /\ ~NumericText(cells[k].s)

\* a frame pd.read_csv can return
ReadCsvTyped(rows) ==
    /\ ColumnTyped([k \in 1..Len(rows) |-> rows[k].Title])
    /\ ColumnTyped([k \in 1..Len(rows) |-> rows[k].City])
    /\ ColumnTyped([k \in 1..Len(rows) |-> rows[k].Era])
    /\ ColumnTyped([k \in 1..Len(rows) |-> rows[k].Year_Western])
    /\ ColumnTyped([k \in 1..Len(rows) |-> rows[k].Library])

\* df_processed after the rename and the column selection of read_and_process_csv
InitBatch ==
    /\ callIdle
    /\ pdf_text = <<>>
    /\ lines = <<>>
    /\ pos = 0
    /\ current_entry = EmptyEntry
    /\ entries = <<>>
    /\ matches = <<>>
    /\ pc = "idle"
    /\ csv_data \in {rows \in RawBatches(MaxBatch) : ReadCsvTyped(rows)}

batchOther == <<fn, arg, arg2, calls, pdf_text, lines, pos, current_entry, entries, matches>>

\* a statement of the pass raised: read_and_process_csv does not return
Abort(exc) ==
    /\ pc' = "raised"
    /\ ret' = exc
    /\ UNCHANGED csv_data

\* df_processed['City_Clean'], ['Coordinates'], ['Latitude'], ['Longitude']
CleanCities ==
    /\ pc = "idle"
    /\ LET cities == [k \in 1..Len(csv_data) |-> clean_city_name(csv_data[k].City)]
       IN  IF Raises(cities) THEN Abort(FirstRaised(cities))
           ELSE /\ csv_data' = [k \in 1..Len(csv_data) |->
                       [csv_data[k] EXCEPT
                           !.City_Clean = cities[k],
                           !.Coordinates = geocode_city_advanced(cities[k]),
                           !.Latitude = LatOf(geocode_city_advanced(cities[k])),
                           !.Longitude = LonOf(geocode_city_advanced(cities[k]))]]
                /\ pc' = "cities"
                /\ UNCHANGED ret
    /\ UNCHANGED batchOther

\* df_processed['Year_Parsed'] and ['Year_Final']
ParseYears ==
    /\ pc = "cities"
    /\ LET results == [k \in 1..Len(csv_data) |-> parse_chinese_era(csv_data[k].Era)]
           parsed == [k \in 1..Len(csv_data) |->
                         [csv_data[k] EXCEPT !.Year_Parsed = YearParsedColumn(results)[k]]]
           finals == [k \in 1..Len(csv_data) |-> YearFinal(parsed[k])]
       IN  IF Raises(results) THEN Abort(FirstRaised(results))
           ELSE IF Raises(finals) THEN Abort(FirstRaised(finals))
           ELSE /\ csv_data' = [k \in 1..Len(csv_data) |->
                                   [parsed[k] EXCEPT !.Year_Final = finals[k]]]
                /\ pc' = "years"
                /\ UNCHANGED ret
    /\ UNCHANGED batchOther

\* df_processed['Category']
CategorizeBooks ==
    /\ pc = "years"
    /\ csv_data' = [k \in 1..Len(csv_data) |->
                       [csv_data[k] EXCEPT !.Category = categorize_book_advanced(csv_data[k].Title)]]
    /\ pc' = "categories"
    /\ UNCHANGED <<ret, batchOther>>

\* df_processed['Library_Coords'], ['Library_Lat'], ['Library_Lon']
GeocodeLibraries ==
    /\ pc = "categories"
    /\ csv_data' = [k \in 1..Len(csv_data) |->
                       [csv_data[k] EXCEPT
                           !.Library_Coords = geocode_library(csv_data[k].Library),
                           !.Library_Lat = LatOf(geocode_library(csv_data[k].Library)),
                           !.Library_Lon = LonOf(geocode_library(csv_data[k].Library))]]
    /\ pc' = "libraries"
    /\ UNCHANGED <<ret, batchOther>>

\* df_valid = df_processed[df_processed['Coordinates'].notna()].copy(); return df_valid
FilterValid ==
    /\ pc = "libraries"
    /\ ret' = [kind |-> "df",
               rows |-> SelectSeq(csv_data, LAMBDA row : ~isna(row.Coordinates))]
    /\ pc' = "returned"
    /\ UNCHANGED <<csv_data, batchOther>>

NextBatch == CleanCities \/ ParseYears \/ CategorizeBooks \/ GeocodeLibraries \/ FilterValid

SpecBatch == InitBatch /\ [][NextBatch]_vars

-----------------------------------------------------------------------------
(* C14 *)

\* C14: the batch returned by a normalization pass contains exactly the input
\* records, in input order and in the same number; a record whose place or year
\* cannot be resolved is kept with null fields, never removed.
C14_BatchSameRecords ==
    pc = "returned" => ret.rows = csv_data

\* C14, for the records the pass returns: they are the records with a resolved
\* place, in input order
C14_ReturnedInOrder ==
    pc = "returned"
        => /\ \A k \in 1..Len(ret.rows) : ~isna(ret.rows[k].Coordinates)
           /\ \E f \in [1..Len(ret.rows) -> 1..Len(csv_data)] :
                 /\ \A k \in 1..Len(ret.rows) : ret.rows[k] = csv_data[f[k]]
                 /\ \A k, j \in 1..Len(ret.rows) : k < j => f[k] < f[j]
           /\ Len(ret.rows) = Cardinality({k \in 1..Len(csv_data) : ~isna(csv_data[k].Coordinates)})

-----------------------------------------------------------------------------
(* C15 *)

\* C15: a record whose place, era/year or title cannot be normalized (unrecognized
\* text, a missing value, a non-string value, a year written as text such as
\* "1919.0") never makes the batch pass raise: the pass reaches its return, the
\* place of a record without a recognizable city and the year of a record without a
\* recognizable date are null, and every record of the batch has been processed.
C15_BatchNeverRaises ==
    /\ pc # "raised"
    /\ pc = "returned"
          => \A k \in 1..Len(csv_data) :
                /\ csv_data[k].City.kind # "str" => isna(csv_data[k].Coordinates)
                /\ (csv_data[k].Era.kind # "str" /\ csv_data[k].Year_Western.kind = "nan")
                       => isna(csv_data[k].Year_Final)
                /\ csv_data[k].Category.kind = "label"

\* the pass ended in the AttributeError of a city cell that holds a number
C15_RaisedByNumberCity ==
    /\ pc = "raised"
    /\ ret = Raised("AttributeError")
    /\ \E k \in 1..Len(csv_data) : csv_data[k].City = PyInt(5)

\* the pass ended in the ValueError of a year written as the text "1919.0"
C15_RaisedByYearText ==
    /\ pc = "raised"
    /\ ret = Raised("ValueError")
    /\ \E k \in 1..Len(csv_data) :
          csv_data[k].Year_Western = PyStr(<<"1", "9", "1", "9", ".", "0">>)

\* a pass over missing, unrecognized and blank fields returned
C15_ReturnedWithNulls ==
    /\ pc = "returned"
    /\ \E k \in 1..Len(csv_data) :
          /\ csv_data[k].Era = PyStr(GengShen)
          /\ isna(csv_data[k].Year_Final)
    /\ \E k \in 1..Len(csv_data) :
          /\ csv_data[k].City = PyStr(LuoYang)
          /\ csv_data[k].Coordinates = None

-----------------------------------------------------------------------------
(* C16 *)

\* C16: a linking pass over a batch of zero records completes without error: no
\* match is made, the batch stays empty, and the statistics it reports (total,
\* confirmed, percentage confirmed, average confidence) are all zero, none of them
\* NaN and none a division by zero.
C16_EmptyBatchStatisticsZero ==
    csv_data = <<>>
        => /\ pc # "raised"
           /\ pc \in {"matched", "enhanced", "reported"} => matches = <<>>
           /\ pc = "reported"
                 => /\ ret.total = 0
                    /\ ret.confirmed = 0
                    /\ ret.percent = ZeroScore
                    /\ ret.average = ZeroScore

\* C16, up to the statistics: the pass over zero records makes no match and leaves
\* the batch empty
C16_EmptyBatchNoMatches ==
    (csv_data = <<>> /\ pc \in {"matched", "enhanced", "reported", "raised"})
        => matches = <<>>

\* the pass over zero records ended in the division by zero of the percentage
C16_EmptyBatchRaised ==
    /\ csv_data = <<>>
    /\ pc = "raised"
    /\ ret = Raised("ZeroDivisionError")

\* the pass over zero records reported a percentage and an average that are NaN
C16_EmptyBatchNaN ==
    /\ csv_data = <<>>
    /\ pc = "reported"
    /\ ret.total = 0
    /\ ret.percent = NaN
    /\ ret.average = NaN

\* a pass over records none of which is confirmed reported 0 percent and an average
\* that is NaN
C16_NoneConfirmedNaN ==
    /\ csv_data # <<>>
    /\ pc = "reported"
    /\ ret.confirmed = 0
    /\ ret.percent = ZeroScore
    /\ ret.average = NaN

-----------------------------------------------------------------------------
(* C17 *)

\* the label of the first of the four keyword lists, taken in the order given, that
\* has a keyword in s; the default label when none has
FirstCategory(s, keywords, labels, default) ==
    LET hits == {r \in 1..Len(keywords) : AnyKeyword(keywords[r], s)}
    IN  IF hits = {} THEN Label(default) ELSE Label(labels[Min(hits)])

\* C17: the categorizer applies the fixed priority Periodical > Theology > Language >
\* History > General: a title matching keywords of several categories gets the one
\* of highest priority, a title matching none gets General, and the titles 天方教典,
\* 語法入門, 時事月刊 give Theology, Language, Periodical (ultra and advanced
\* categorizers, each with its own keyword lists and its own spelling of the labels;
\* ultra with a publisher that is no periodical publisher).
C17_PriorityOrder ==
    /\ (/\ fn = "ultra.categorize_book"
        /\ arg.kind = "str"
        /\ ~Contains(Lower(ToStr(arg2)), ShuBaoShe))
            => /\ ret = FirstCategory(Lower(arg.s),
                                      <<ultra_periodical_keywords, ultra_theology_keywords,
                                        ultra_language_keywords, ultra_history_keywords>>,
                                      <<"Periodical", "Theology", "Language", "History">>,
                                      "General")
               /\ arg.s = <<"u5929", "u65b9", "u6559", "u5178">> => ret = Label("Theology")
               /\ arg.s = <<"u8a9e", "u6cd5", "u5165", "u9580">> => ret = Label("Language")
               /\ arg.s = <<"u6642", "u4e8b", "u6708", "u520a">> => ret = Label("Periodical")
    /\ (fn = "advanced.categorize_book" /\ arg.kind = "str")
            => /\ ret = FirstCategory(Lower(arg.s),
                                      <<advanced_periodical_keywords, advanced_theology_keywords,
                                        advanced_language_keywords, advanced_history_keywords>>,
                                      <<"periodical", "theology", "language", "history">>,
                                      "general")
               /\ arg.s = <<"u5929", "u65b9", "u6559", "u5178">> => ret = Label("theology")
               /\ arg.s = <<"u8a9e", "u6cd5", "u5165", "u9580">> => ret = Label("language")
               /\ arg.s = <<"u6642", "u4e8b", "u6708", "u520a">> => ret = Label("periodical")

\* C17, the ultra categorizer alone, with a publisher that is no periodical publisher
C17_UltraPriorityOrder ==
    (/\ fn = "ultra.categorize_book"
     /\ arg.kind = "str"
     /\ ~Contains(Lower(ToStr(arg2)), ShuBaoShe))
        => /\ ret = FirstCategory(Lower(arg.s),
                                  <<ultra_periodical_keywords, ultra_theology_keywords,
                                    ultra_language_keywords, ultra_history_keywords>>,
                                  <<"Periodical", "Theology", "Language", "History">>,
                                  "General")
           /\ arg.s = <<"u5929", "u65b9", "u6559", "u5178">> => ret = Label("Theology")
           /\ arg.s = <<"u8a9e", "u6cd5", "u5165", "u9580">> => ret = Label("Language")
           /\ arg.s = <<"u6642", "u4e8b", "u6708", "u520a">> => ret = Label("Periodical")

\* C17, the order the advanced categorizer applies: theology, history, language,
\* periodical
C17_AdvancedOwnOrder ==
    (fn = "advanced.categorize_book" /\ arg.kind = "str" /\ arg.s # <<>>)
        => ret = FirstCategory(Lower(arg.s),
                               <<advanced_theology_keywords, advanced_history_keywords,
                                 advanced_language_keywords, advanced_periodical_keywords>>,
                               <<"theology", "history", "language", "periodical">>,
                               "general")

\* the advanced categorizer answered theology for the title 語法入門
C17_AdvancedGrammarIsTheology ==
    /\ fn = "advanced.categorize_book"
    /\ arg = PyStr(<<"u8a9e", "u6cd5", "u5165", "u9580">>)
    /\ ret = Label("theology")

\* the ultra categorizer answered Language for a title with a language and a history
\* keyword
C17_UltraLanguageBeatsHistory ==
    /\ fn = "ultra.categorize_book"
    /\ arg = PyStr(LiShi \o YuFa)
    /\ ret = Label("Language")

-----------------------------------------------------------------------------
(* C18 *)

\* C18: categorize_book(title, publisher) returns Periodical whenever the publisher
\* contains any keyword of the periodical keyword list, whatever the title contains.
C18_PublisherKeywordIsPeriodical ==
    (/\ fn = "ultra.categorize_book"
     /\ AnyKeyword(ultra_periodical_keywords, Lower(ToStr(arg2))))
        => ret = Label("Periodical")

\* C18, for the one keyword the code looks for in the publisher: with 書報社 in the
\* publisher and a title that is not missing the label is Periodical
C18_ShuBaoShePublisherIsPeriodical ==
    (/\ fn = "ultra.categorize_book"
     /\ ~isna(arg)
     /\ Contains(Lower(ToStr(arg2)), ShuBaoShe))
        => ret = Label("Periodical")

\* a publisher holding the periodical keyword 月刊 with a title holding none: the
\* label is General
C18_YueKanPublisherGeneral ==
    /\ fn = "ultra.categorize_book"
    /\ arg = PyStr(<<"x">>)
    /\ arg2 = PyStr(YueKan)
    /\ ret = Label("General")

\* a publisher holding 書報社 with a theology title: the label is Periodical
C18_ShuBaoShePublisherBeatsTitle ==
    /\ fn = "ultra.categorize_book"
    /\ arg = PyStr(TianFang)
    /\ arg2 = PyStr(ShuBaoShe)
    /\ ret = Label("Periodical")

-----------------------------------------------------------------------------
(* C19 *)

\* the era names in the order parse_chinese_era tries them: 民國, then era_mappings
EraOrderAdvanced == <<MinGuo>> \o [k \in 1..Len(era_mappings) |-> era_mappings[k].era]

\* the era names in the order parse_chinese_year tries them
EraOrderUltra == [k \in 1..Len(era_map) |-> era_map[k].era]

\* the place of an era name in an order
RankIn(order, era) == CHOOSE k \in 1..Len(order) : order[k] = era

\* the base year of an era name
BaseYear(era) == era_map[CHOOSE k \in 1..Len(era_map) : era_map[k].era = era].base_year

\* what the statement gives for "{e1}{n1}年{e2}{n2}年" under an order of the eras:
\* the base year and the offset of the era that comes first in the order
FirstEraYear(order, e1, n1, e2, n2) ==
    IF RankIn(order, e1) <= RankIn(order, e2)
    THEN PyInt(BaseYear(e1) + n1 - 1)
    ELSE PyInt(BaseYear(e2) + n2 - 1)

\* C19: when the string names more than one era of the table, the converter applies
\* only the era that comes first in table order and returns that era's base year +
\* offset - 1, wherever the era names stand in the string (parse_chinese_year and
\* parse_chinese_era, each with the order of its own table).
C19_FirstEraInTableOrder ==
    \A e1 \in EraNames, e2 \in EraNames, n1 \in {3, 5}, n2 \in {3, 5} :
        (e1 # e2 /\ arg = PyStr(EraString(e1, n1) \o EraString(e2, n2)))
            => /\ fn = "parse_chinese_year"
                     => /\ ret = FirstEraYear(EraOrderUltra, e1, n1, e2, n2)
                        /\ ret = parse_chinese_year(PyStr(EraString(e2, n2) \o EraString(e1, n1)))
               /\ fn = "parse_chinese_era"
                     => /\ ret = FirstEraYear(EraOrderAdvanced, e1, n1, e2, n2)
                        /\ ret = parse_chinese_era(PyStr(EraString(e2, n2) \o EraString(e1, n1)))

\* C19, parse_chinese_era alone
C19_AdvancedFirstEraInTableOrder ==
    \A e1 \in EraNames, e2 \in EraNames, n1 \in {3, 5}, n2 \in {3, 5} :
        (/\ fn = "parse_chinese_era"
         /\ e1 # e2
         /\ arg = PyStr(EraString(e1, n1) \o EraString(e2, n2)))
            => /\ ret = FirstEraYear(EraOrderAdvanced, e1, n1, e2, n2)
               /\ ret = parse_chinese_era(PyStr(EraString(e2, n2) \o EraString(e1, n1)))

\* C19, parse_chinese_year: the base year is that of the era first in table order,
\* the offset is that of the era that stands first in the string
C19_UltraFirstEraFirstOffset ==
    \A e1 \in EraNames, e2 \in EraNames, n1 \in {3, 5}, n2 \in {3, 5} :
        (/\ fn = "parse_chinese_year"
         /\ e1 # e2
         /\ arg = PyStr(EraString(e1, n1) \o EraString(e2, n2)))
            => ret = PyInt(BaseYear(IF RankIn(EraOrderUltra, e1) <= RankIn(EraOrderUltra, e2)
                                    THEN e1 ELSE e2) + n1 - 1)

\* parse_chinese_year answered 1877 for 宣統3年光緒5年
C19_UltraSwappedOffset ==
    /\ fn = "parse_chinese_year"
    /\ arg = PyStr(EraString(<<"u5ba3", "u7d71">>, 3) \o EraString(GuangXu, 5))
    /\ ret = PyInt(1877)

\* parse_chinese_era answered 1879 for 宣統3年光緒5年
C19_AdvancedSwapped ==
    /\ fn = "parse_chinese_era"
    /\ arg = PyStr(EraString(<<"u5ba3", "u7d71">>, 3) \o EraString(GuangXu, 5))
    /\ ret = PyInt(1879)

-----------------------------------------------------------------------------
(* C20 *)

\* C20: the offset the converter uses is the digit run that follows the matched era
\* name and immediately precedes 年; a digit run followed by 年 that stands before
\* the era name, as in 5年光緒25年, is never used as the offset (parse_chinese_year
\* and parse_chinese_era).
C20_OffsetFollowsEraName ==
    \A e \in EraNames, n \in {2, 25} :
        (/\ fn \in {"parse_chinese_year", "parse_chinese_era"}
         /\ arg = PyStr(IntToStr(5) \o Nian \o EraString(e, n)))
            => ret = PyInt(BaseYear(e) + n - 1)

\* C20, parse_chinese_era alone
C20_AdvancedOffsetFollowsEraName ==
    \A e \in EraNames, n \in {2, 25} :
        (/\ fn = "parse_chinese_era"
         /\ arg = PyStr(IntToStr(5) \o Nian \o EraString(e, n)))
            => ret = PyInt(BaseYear(e) + n - 1)

\* C20, parse_chinese_year: the offset is the first digit run before a 年 of the
\* whole string
C20_UltraOffsetIsFirstDigitRun ==
    \A e \in EraNames, n \in {2, 25} :
        (/\ fn = "parse_chinese_year"
         /\ arg = PyStr(IntToStr(5) \o Nian \o EraString(e, n)))
            => ret = PyInt(BaseYear(e) + 5 - 1)

\* parse_chinese_year answered 1879 for 5年光緒25年
C20_UltraLeadingYearUsed ==
    /\ fn = "parse_chinese_year"
    /\ arg = PyStr(IntToStr(5) \o Nian \o EraString(GuangXu, 25))
    /\ ret = PyInt(1879)

\* parse_chinese_era answered 1899 for 5年光緒25年
C20_AdvancedLeadingYearSkipped ==
    /\ fn = "parse_chinese_era"
    /\ arg = PyStr(IntToStr(5) \o Nian \o EraString(GuangXu, 25))
    /\ ret = PyInt(1899)

-----------------------------------------------------------------------------
(* C21 *)

\* the string names an era of the era table
NamesEra(s) == \E k \in 1..Len(era_map) : Contains(s, era_map[k].era)

\* the plain year a string of digits stands for, None for any other string
PlainYear(s) == IF IsDigits(Strip(s)) THEN PyInt(ParseInt(Strip(s))) ELSE None

\* C21: when the date input names no era of the table, the resolved year is the
\* plain numeric year if the input (or the record's numeric year field) parses as
\* one, and null otherwise; when an era does resolve, the era-derived year is the
\* resolved year and the numeric field is only the fallback (parse_chinese_year on
\* the date input, parse_year on the numeric year field and the era).
C21_PlainYearFallback ==
    /\ (fn = "parse_chinese_year" /\ arg.kind = "str" /\ ~NamesEra(arg.s))
            => ret = PlainYear(arg.s)
    /\ (fn = "parse_year" /\ arg.kind = "str" /\ ~NamesEra(arg.s))
            => ret = (IF arg2.kind = "int" THEN arg2 ELSE PlainYear(arg.s))
    /\ (fn = "parse_year" /\ arg.kind = "str" /\ parse_year(NaN, arg) # None)
            => ret = parse_year(NaN, arg)

\* C21, what parse_chinese_year does without an era: the result is null, digits or
\* not
C21_UltraNoEraIsNull ==
    (fn = "parse_chinese_year" /\ arg.kind = "str" /\ ~NamesEra(arg.s))
        => ret = None

\* C21, what parse_year does: the numeric year field, when there is one, is the
\* result whatever the era says; the era is the fallback
C21_CombinedNumericFirst ==
    (fn = "parse_year" /\ arg2.kind = "int") => ret = arg2

\* parse_chinese_year answered null for the plain year 1919
C21_UltraPlainYearNull ==
    /\ fn = "parse_chinese_year"
    /\ arg = PyStr(<<"1", "9", "1", "9">>)
    /\ ret = None

\* parse_year answered the numeric field 1919 for the era 光緒5年 (1879)
C21_CombinedEraOverridden ==
    /\ fn = "parse_year"
    /\ arg = PyStr(EraString(GuangXu, 5))
    /\ arg2 = PyInt(1919)
    /\ ret = PyInt(1919)

\* read_and_process_csv returned a record without a parsable era whose numeric year
\* 1919 was not used: next to a record with a parsed era its Year_Parsed is NaN,
\* which is not falsy
C21_BatchFallbackLost ==
    /\ pc = "returned"
    /\ \E k \in 1..Len(csv_data) :
          /\ csv_data[k].Era = PyStr(GengShen)
          /\ csv_data[k].Year_Western = PyFloat(1919)
          /\ csv_data[k].Year_Final = NaN

\* read_and_process_csv returned a record without a parsable era whose numeric year
\* 1919 is its final year: no record of the batch has a parsed era
C21_BatchFallbackUsed ==
    /\ pc = "returned"
    /\ \E k \in 1..Len(csv_data) :
          /\ csv_data[k].Era = PyStr(GengShen)
          /\ csv_data[k].Year_Final = PyInt(1919)

-----------------------------------------------------------------------------
(* C22 *)

\* the first whitespace-delimited token of s up to its first opening parenthesis,
\* full-width or half-width
HeadName(s) ==
    LET token == FirstToken(s)
        opens == {i \in 1..Len(token) : token[i] \in {FullParen, "("}}
    IN  IF opens = {} THEN token ELSE SubSeq(token, 1, Min(opens) - 1)

\* C22: the name returned by the alias normalizer contains only the first
\* whitespace-delimited token of the raw string and nothing from an opening
\* parenthesis onward, for both full-width and half-width parentheses, closed or
\* not: the name holds no whitespace and no opening parenthesis, and it is the name
\* returned for that part of the raw string alone (clean_city_name and both
\* standardize_city).
C22_FirstTokenBeforeParen ==
    (fn \in AliasFns /\ calls = 1 /\ arg.kind = "str" /\ ret.kind = "str")
        => /\ \A i \in 1..Len(ret.s) : ret.s[i] \notin Whitespace \cup {FullParen, "("}
           /\ ret = ApplyAlias(fn, PyStr(HeadName(arg.s)))

\* C22, clean_city_name on raw strings whose only whitespace is the space and whose
\* only parenthesis is the full-width one
C22_AtlasSpaceAndFullParen ==
    (/\ fn = "clean_city_name"
     /\ calls = 1
     /\ arg.kind = "str"
     /\ ret.kind = "str"
     /\ \A i \in 1..Len(arg.s) : arg.s[i] \notin {"\t", "("})
        => /\ \A i \in 1..Len(ret.s) : ret.s[i] \notin Whitespace \cup {FullParen, "("}
           /\ ret.s = MapGet(standardization_map, HeadName(arg.s))

\* clean_city_name kept the half-width parenthesis of 北平(x
C22_AtlasHalfWidthKept ==
    /\ fn = "clean_city_name"
    /\ arg = PyStr(BeiPing \o <<"(", "x">>)
    /\ ret = arg

\* clean_city_name cut 北平 x down to 北京
C22_AtlasSecondTokenDropped ==
    /\ fn = "clean_city_name"
    /\ arg = PyStr(BeiPing \o <<" ", "x">>)
    /\ ret = PyStr(BeiJing)

\* the combined standardize_city kept the second token of 北平 x
C22_CombinedSecondTokenKept ==
    /\ fn = "combined.standardize_city"
    /\ arg = PyStr(BeiPing \o <<" ", "x">>)
    /\ ret = arg

-----------------------------------------------------------------------------
(* OCR extraction pass: extract_pdf_data.clean_ocr_text and                   *)
(* extract_bibliographic_entries                                              *)

\* re.sub(r'\s+', ' ', text): every run of whitespace becomes one space
CollapseWhitespace(text) ==
    LET kept == {i \in 1..Len(text) :
                    text[i] \notin Whitespace \/ i = 1 \/ text[i - 1] \notin Whitespace}
        Nth(n) == CHOOSE i \in kept : Cardinality({j \in kept : j <= i}) = n
    IN  [n \in 1..Cardinality(kept) |->
            IF text[Nth(n)] \in Whitespace THEN " " ELSE text[Nth(n)]]

\* text.replace(old, new) for single characters
ReplaceChar(text, old, new) == [i \in 1..Len(text) |-> IF text[i] = old THEN new ELSE text[i]]

\* a cleaning that does not strip the ends
clean_ocr_text_no_strip(text) ==
    ReplaceChar(ReplaceChar(CollapseWhitespace(text), "|", "I"), "0", "O")

\* extract_pdf_data.clean_ocr_text(text)
clean_ocr_text(text) ==
    ReplaceChar(ReplaceChar(Strip(CollapseWhitespace(text)), "|", "I"), "0", "O")

\* "=== PAGE BREAK ==="
PageBreak ==
    <<"=", "=", "=", " ", "P", "A", "G", "E", " ", "B", "R", "E", "A", "K", " ", "=", "=", "=">>

\* "\n\n=== PAGE BREAK ===\n\n".join(pages_text)
RECURSIVE JoinPages(_)
JoinPages(pages) ==
    IF pages = <<>> THEN <<>>
    ELSE IF Len(pages) = 1 THEN pages[1]
    ELSE pages[1] \o <<"\n", "\n">> \o PageBreak \o <<"\n", "\n">> \o JoinPages(Tail(pages))

\* re.search(r'\d{4}', line)
HasYear(line) ==
    \E i \in 1..(Len(line) - 3) : \A j \in i..(i + 3) : IsDigit(line[j])

\* the characters of the page alphabet in the ranges 4e00-9fff, 3040-309f, 30a0-30ff
HanKana == {"u5929"}

\* re.search(r"[\u4e00-\u9fff\u3040-\u309f\u30a0-\u30ff]", line)
HasHanKana(line) == \E i \in 1..Len(line) : line[i] \in HanKana

\* d[key] = value on a dict kept as a function of its keys
DictSet(d, key, value) ==
    [k \in DOMAIN d \cup {key} |-> IF k = key THEN value ELSE d[k]]

\* the body of the for loop of extract_bibliographic_entries on one line: the new
\* current_entry and entries
extract_line(cur, acc, raw) ==
    LET line == Strip(raw)
    IN  IF line = <<>> \/ line = PageBreak
        THEN IF DOMAIN cur # {}
             THEN [current_entry |-> EmptyEntry, entries |-> Append(acc, cur)]
             ELSE [current_entry |-> cur, entries |-> acc]
        ELSE LET dated == IF HasYear(line) THEN DictSet(cur, "year_line", line) ELSE cur
                 titled ==
                     IF ~HasHanKana(line) THEN dated
                     ELSE IF "title_line" \notin DOMAIN dated
                     THEN DictSet(dated, "title_line", line)
                     ELSE IF "additional_info" \notin DOMAIN dated
                     THEN DictSet(dated, "additional_info", line)
                     ELSE dated
             IN  [current_entry |-> titled, entries |-> acc]

\* the end of extract_bibliographic_entries: the last entry is appended
extract_finish(cur, acc) == IF DOMAIN cur # {} THEN Append(acc, cur) ELSE acc

-----------------------------------------------------------------------------
(* Inputs and steps of the extraction pass *)

\* a PDF has at most this many pages
MaxPages == 2

\* a page is a concatenation of at most this many pieces
MaxPagePieces == 2

Year1919 == <<"1", "9", "1", "9">>

PagePieces == {<<"u5929">>, Year1919, <<"\n">>}

PageTexts == Concats(PagePieces, MaxPagePieces)

\* all lists of at most n pages
RECURSIVE PageLists(_)
PageLists(n) ==
    IF n = 0 THEN {<<>>}
    ELSE PageLists(n - 1) \cup {Append(ps, p) : ps \in PageLists(n - 1), p \in PageTexts}

\* extract_bibliographic_entries(pages_text) is about to be called on the pages ocr_pdf
\* returned
InitOcr ==
    /\ fn = "extract_bibliographic_entries"
    /\ arg \in {[kind |-> "list", items |-> ps] : ps \in PageLists(MaxPages)}
    /\ arg2 = None
    /\ ret = None
    /\ calls = 0
    /\ pipeIdle

ocrOther == <<fn, arg, arg2, calls, csv_data, matches>>

\* the pages are joined, the text cleaned and split, current_entry = {}
ExtractStart ==
    /\ pc = "idle"
    /\ fn = "extract_bibliographic_entries"
    /\ pdf_text' = clean_ocr_text(JoinPages(arg.items))
    /\ lines' = Split(pdf_text', "\n")
    /\ pos' = 1
    /\ current_entry' = EmptyEntry
    /\ entries' = <<>>
    /\ pc' = "extracting"
    /\ UNCHANGED <<ocrOther, ret>>

\* one iteration of the for loop
ExtractLine ==
    /\ pc = "extracting"
    /\ pos <= Len(lines)
    /\ LET st == extract_line(current_entry, entries, lines[pos])
       IN  /\ current_entry' = st.current_entry
           /\ entries' = st.entries
    /\ pos' = pos + 1
    /\ UNCHANGED <<ocrOther, ret, pdf_text, lines, pc>>

\* the loop is over: return entries, cleaned_text
ExtractReturn ==
    /\ pc = "extracting"
    /\ pos > Len(lines)
    /\ entries' = extract_finish(current_entry, entries)
    /\ ret' = [kind |-> "tuple", entries |-> entries', cleaned_text |-> pdf_text]
    /\ pc' = "extracted"
    /\ UNCHANGED <<ocrOther, pdf_text, lines, pos, current_entry>>

NextOcr == ExtractStart \/ ExtractLine \/ ExtractReturn

SpecOcr == InitOcr /\ [][NextOcr]_vars

-----------------------------------------------------------------------------
(* C23 *)

\* the page holds something an entry is made of: a year or a Han or kana character
PageHasContent(page) == HasYear(page) \/ HasHanKana(page)

\* C23: in the OCR extraction pass every boundary (here the page-break marker put
\* between the pages) ends the current entry, and the entries come in input order:
\* no line of an emitted entry holds the marker or text of two pages (each is part
\* of the cleaned text of one page), and every page with content has an entry of its
\* own.
C23_PageBreakEndsEntry ==
    pc = "extracted"
        => /\ \A e \in 1..Len(entries) : \A key \in DOMAIN entries[e] :
                 /\ ~Contains(entries[e][key], PageBreak)
                 /\ \E p \in 1..Len(arg.items) :
                       Contains(clean_ocr_text(arg.items[p]), entries[e][key])
           /\ Len(entries) >= Cardinality({p \in 1..Len(arg.items) :
                                               PageHasContent(arg.items[p])})

\* C23, what the pass does: the cleaned text is one line, so there is at most one
\* entry, and each of its lines is the whole cleaned text
C23_OneEntryPerDocument ==
    pc = "extracted"
        => /\ lines = <<pdf_text>>
           /\ Len(entries) <= 1
           /\ \A e \in 1..Len(entries) : \A key \in DOMAIN entries[e] :
                 entries[e][key] = pdf_text

\* two pages with content came out as one entry that holds the page-break marker
C23_TwoPagesOneEntry ==
    /\ pc = "extracted"
    /\ Len(arg.items) = 2
    /\ PageHasContent(arg.items[1])
    /\ PageHasContent(arg.items[2])
    /\ Len(entries) = 1
    /\ Contains(entries[1].title_line, PageBreak)

-----------------------------------------------------------------------------
(* C24 *)

\* the index of the i-th boundary line of the text
BoundaryAt(text, i) ==
    CHOOSE k \in BoundaryLines(text) :
        Cardinality({j \in BoundaryLines(text) : j <= k}) = i

\* the index after the last line of the entry that starts at line b, when a blank
\* line ends an entry: the next boundary line, the next blank line or the end
EntryStop(text, b) ==
    Min({k \in (b + 1)..Len(StrippedLines(text)) :
            k \in BoundaryLines(text) \/ StrippedLines(text)[k] = <<>>}
        \cup {Len(StrippedLines(text)) + 1})

\* the index of the next boundary line after line b, or of the end
NextBoundary(text, b) ==
    Min({k \in (b + 1)..Len(StrippedLines(text)) : k \in BoundaryLines(text)}
        \cup {Len(StrippedLines(text)) + 1})

\* C24: a blank line flushes the current entry without starting a new one: the
\* non-boundary lines that come after a blank line are never appended to the entry
\* that was being accumulated before it, so the text of each entry is its boundary
\* line and the lines that follow it up to the next blank or boundary line.
C24_BlankLineEndsEntry ==
    pc = "parsed"
        => \A i \in 1..Len(entries) :
              LET b == BoundaryAt(pdf_text, i)
              IN  entries[i].text =
                      JoinFrom(SubSeq(StrippedLines(pdf_text), b, EntryStop(pdf_text, b) - 1), 1)

\* C24, what parse_catalog_entries does: blank lines are skipped, and the text of an
\* entry is its boundary line and every non-blank line up to the next boundary line
C24_BlankLinesSkipped ==
    pc = "parsed"
        => \A i \in 1..Len(entries) :
              LET b == BoundaryAt(pdf_text, i)
              IN  entries[i].text =
                      JoinFrom(SelectSeq(SubSeq(StrippedLines(pdf_text), b,
                                                NextBoundary(pdf_text, b) - 1),
                                         LAMBDA line : line # <<>>), 1)

\* the line after a blank line was appended to the entry before it: 691, a blank
\* line, a
C24_AppendedAcrossBlank ==
    /\ pc = "parsed"
    /\ pdf_text = <<"6", "9", "1", "\n", "\n", "a">>
    /\ Len(entries) = 1
    /\ entries[1].text = <<"6", "9", "1", " ", "a">>

-----------------------------------------------------------------------------
(* C25 *)

\* the similarity of the title of row k to entry e
ScoreOf(k, e) == ratio(TitleOf(k), EntryText(entries[e]))

\* C25: the entry retained for a record is one whose similarity to the record's
\* title is maximal over all catalog entries; when several entries share the
\* maximal score the one earliest in the entry sequence is retained, and the
\* recorded confidence equals that maximal score.
C25_RetainedEntryIsFirstMaximal ==
    pc \in {"matched", "enhanced"}
        => \A i \in 1..Len(matches) :
              LET k == matches[i].csv_index
                  maximal == {e \in 1..Len(entries) :
                                 \A f \in 1..Len(entries) : ScoreGe(ScoreOf(k, e), ScoreOf(k, f))}
              IN  /\ maximal # {}
                  /\ matches[i].pdf_entry = entries[Min(maximal)]
                  /\ matches[i].confidence = ScoreOf(k, Min(maximal))

\* the title 691 is as similar to the entry 691a as to the entry 691b, and the first
\* of the two was retained
C25_Witness ==
    /\ pc = "matched"
    /\ Len(entries) = 2
    /\ entries[1] # entries[2]
    /\ \E i \in 1..Len(matches) :
          /\ ScoreOf(matches[i].csv_index, 1) = ScoreOf(matches[i].csv_index, 2)
          /\ matches[i].pdf_entry = entries[1]
          /\ matches[i].confidence = Score(6, 7)

-----------------------------------------------------------------------------
(* C26 *)

\* the string is built from era names of the table, digits and the 年 marker
EraDigitsNianOnly(s) ==
    \A i \in 1..Len(s) :
        \/ IsDigit(s[i])
        \/ s[i] = Nian[1]
        \/ \E e \in EraNames : \E j \in 1..Len(e) :
              /\ i - j + 1 >= 1
              /\ i - j + Len(e) <= Len(s)
              /\ SubSeq(s, i - j + 1, i - j + Len(e)) = e

\* C26: parse_chinese_era and parse_chinese_year return the same result (the same
\* year or both null) for every string built from era names of the table, digits
\* and the 年 marker, strings naming two eras and strings with digits not adjacent
\* to the era name included.
C26_ConvertersAgree ==
    (/\ fn \in {"parse_chinese_era", "parse_chinese_year"}
     /\ arg.kind = "str"
     /\ EraDigitsNianOnly(arg.s))
        => /\ ret = parse_chinese_era(arg)
           /\ ret = parse_chinese_year(arg)

\* C26, on the strings "{era}{offset}年" alone
C26_AgreeOnDatedEra ==
    (/\ fn \in {"parse_chinese_era", "parse_chinese_year"}
     /\ arg.kind = "str"
     /\ arg.s \in WellFormedEraStrings)
        => /\ ret = parse_chinese_era(arg)
           /\ ret = parse_chinese_year(arg)

\* the two converters differ on 5年光緒: parse_chinese_year answered 1879, where
\* parse_chinese_era gives null
C26_DifferOnDetachedDigits ==
    /\ fn = "parse_chinese_year"
    /\ arg = PyStr(<<"5">> \o Nian \o GuangXu)
    /\ ret = PyInt(1879)
    /\ parse_chinese_era(arg) = None

-----------------------------------------------------------------------------
(* Repeated annotation of one batch: integrate_pdf_data.enhance_records_with_pdf *)

\* a match list has at most this many matches
MaxMatches == 2

\* two catalog entries, the second with a raw line of 203 characters
ShortEntry == [raw_line |-> <<"6", "9", "1">>, year_code |-> <<"6", "9", "1">>,
               text |-> <<"6", "9", "1", " ", "a">>]
LongEntry == [raw_line |-> LongLine \o <<"6", "9", "T">>, year_code |-> <<"6", "9", "1">>,
              text |-> LongLine \o <<"6", "9", "T">>]
EnhanceEntries == <<ShortEntry, LongEntry>>

\* the matches that name a row of the batch and an entry: the first entry with the
\* confidence 1/2, the second with 1
MatchRecords(rows) ==
    {[csv_index |-> k, pdf_entry |-> EnhanceEntries[e],
      confidence |-> IF e = 1 THEN Score(1, 2) ELSE OneScore] :
        k \in 1..Len(rows), e \in 1..Len(EnhanceEntries)}

\* all lists of at most n matches
RECURSIVE MatchLists(_, _)
MatchLists(rows, n) ==
    IF n = 0 THEN {<<>>}
    ELSE MatchLists(rows, n - 1)
            \cup {Append(ms, m) : ms \in MatchLists(rows, n - 1), m \in MatchRecords(rows)}

\* a batch of n records as read from the CSV file, the titles alternating
EnhanceBatch(n) ==
    [k \in 1..n |-> NewRow(PyStr(IF k % 2 = 1 THEN <<"a">> ELSE <<"b">>))]

\* what the check of a call keeps of the batch on entry: the title and the
\* confirmation of each record
OnEntry(rows) ==
    [k \in 1..Len(rows) |-> [title |-> rows[k].title,
                             pdf_confirmed |-> rows[k].pdf_confirmed]]

\* a batch before the first call
InitEnhance ==
    /\ fn = "enhance_records_with_pdf"
    /\ arg = None
    /\ arg2 = None
    /\ ret = None
    /\ calls = 0
    /\ pdf_text = <<>>
    /\ lines = <<>>
    /\ pos = 0
    /\ current_entry = EmptyEntry
    /\ entries = EnhanceEntries
    /\ pc = "idle"
    /\ csv_data \in {EnhanceBatch(n) : n \in 0..MaxRecords}
    /\ matches = <<>>

\* enhance_records_with_pdf(csv_data, pdf_matches) on the batch as the call before
\* left it: arg2 is the batch on entry (OnEntry), matches the list given, ret the
\* batch returned, which is csv_data itself
CallEnhance ==
    /\ fn = "enhance_records_with_pdf"
    /\ \E pdf_matches \in MatchLists(csv_data, MaxMatches) :
          /\ matches' = pdf_matches
          /\ csv_data' = enhance_records_with_pdf(csv_data, pdf_matches)
    /\ arg2' = OnEntry(csv_data)
    /\ ret' = csv_data'
    /\ pc' = IF pc = "idle" THEN "enhanced" ELSE "enhanced again"
    /\ UNCHANGED <<fn, arg, calls, pdf_text, lines, pos, current_entry, entries>>

NextEnhance == CallEnhance

SpecEnhance == InitEnhance /\ [][NextEnhance]_vars

-----------------------------------------------------------------------------
(* C27 *)

\* the indices of the matches of the list that name row k
MatchesOfRow(k) == {i \in 1..Len(matches) : matches[i].csv_index = k}

\* C27: enhance_records_with_pdf fully determines the link fields from the match
\* list it is given: after any sequence of calls on the same batch pdf_confirmed is
\* true exactly for the rows the last list names (no confirmation of an earlier call
\* survives), a second call with the same list gives the same batch, every stored
\* excerpt is a prefix, of at most 200 characters, of the raw line of the matched
\* entry, and no other field of any record and no catalog entry is changed.
C27_LinkFieldsFromLastList ==
    (fn = "enhance_records_with_pdf" /\ pc \in {"enhanced", "enhanced again"})
        => /\ Len(csv_data) = Len(arg2)
           /\ \A k \in 1..Len(csv_data) :
                 /\ csv_data[k].title = arg2[k].title
                 /\ csv_data[k].pdf_confirmed = (MatchesOfRow(k) # {})
                 /\ MatchesOfRow(k) = {} => Unconfirmed(csv_data[k])
                 /\ MatchesOfRow(k) # {}
                       => LET m == matches[Max(MatchesOfRow(k))]
                          IN  /\ csv_data[k].pdf_confidence = m.confidence
                              /\ Len(csv_data[k].pdf_catalog_entry) <= 200
                              /\ csv_data[k].pdf_catalog_entry =
                                     SubSeq(m.pdf_entry.raw_line, 1,
                                            Len(csv_data[k].pdf_catalog_entry))
                              /\ \/ Len(csv_data[k].pdf_catalog_entry) = 200
                                 \/ csv_data[k].pdf_catalog_entry = m.pdf_entry.raw_line
           /\ csv_data = enhance_records_with_pdf(csv_data, matches)
           /\ ret = csv_data
           /\ entries = EnhanceEntries

\* a later call whose list does not name a row the call before had confirmed: the
\* row is unconfirmed again, while another row holds an excerpt of 200 characters
\* of a raw line of 203
C27_Witness ==
    /\ fn = "enhance_records_with_pdf"
    /\ pc = "enhanced again"
    /\ Len(csv_data) = 2
    /\ arg2[1].pdf_confirmed = TRUE
    /\ Unconfirmed(csv_data[1])
    /\ csv_data[2].pdf_confirmed = TRUE
    /\ Len(csv_data[2].pdf_catalog_entry) = 200
    /\ Len(matches[1].pdf_entry.raw_line) = 203

-----------------------------------------------------------------------------
(* C28 *)

\* the library name of a record after trimming
TrimmedLibrary(row) == Strip(ToStr(row.Library))

\* the name equals, contains or is a part of the key, letter case apart
RelatedTo(name, key) ==
    \/ Contains(Lower(name), Lower(key))
    \/ Contains(Lower(key), Lower(name))

\* the name is related to a key of LIBRARY_COORDINATES or to an institution keyword
RelatedToRegistry(name) ==
    \/ \E k \in 1..Len(LIBRARY_COORDINATES) : RelatedTo(name, LIBRARY_COORDINATES[k].name)
    \/ \E k \in 1..Len(japanese_institutions) : RelatedTo(name, japanese_institutions[k].name)

\* C28: geocode_library returns null for a library name that is empty after
\* trimming (e.g. whitespace-only); it returns coordinates only for a name that
\* equals, contains, or is a non-empty part of a registry key or institution
\* keyword, with an exact key match taking precedence over keyword and containment
\* matches.
C28_LibraryGeocoding ==
    pc \in {"libraries", "returned"}
        => \A k \in 1..Len(csv_data) :
              csv_data[k].Library.kind = "str"
                 => LET name == TrimmedLibrary(csv_data[k])
                    IN  /\ name = <<>> => csv_data[k].Library_Coords = None
                        /\ csv_data[k].Library_Coords # None
                              => name # <<>> /\ RelatedToRegistry(name)
                        /\ CoordsGet(LIBRARY_COORDINATES, name) # None
                              => csv_data[k].Library_Coords
                                     = CoordsGet(LIBRARY_COORDINATES, name)

\* C28, for the names that are not empty after trimming
C28_NonEmptyLibraryGeocoding ==
    pc \in {"libraries", "returned"}
        => \A k \in 1..Len(csv_data) :
              (csv_data[k].Library.kind = "str" /\ TrimmedLibrary(csv_data[k]) # <<>>)
                 => LET name == TrimmedLibrary(csv_data[k])
                    IN  /\ csv_data[k].Library_Coords # None => RelatedToRegistry(name)
                        /\ ~RelatedToRegistry(name) => csv_data[k].Library_Coords = None
                        /\ CoordsGet(LIBRARY_COORDINATES, name) # None
                              => csv_data[k].Library_Coords
                                     = CoordsGet(LIBRARY_COORDINATES, name)

\* a whitespace-only library name has the coordinates of the first registry key
C28_BlankLibraryLocated ==
    /\ pc = "returned"
    /\ \E k \in 1..Len(csv_data) :
          /\ csv_data[k].Library = PyStr(<<" ">>)
          /\ csv_data[k].Library_Coords = FirstCoords(LIBRARY_COORDINATES, {1})

\* a name that is part of a key only, a keyword and an unrelated name
C28_PartKeywordUnrelated ==
    /\ pc = "returned"
    /\ Len(csv_data) = 2
    /\ csv_data[1].Library = PyStr(<<"L", "i", "b">>)
    /\ csv_data[1].Library_Coords = FirstCoords(LIBRARY_COORDINATES, {10})
    /\ csv_data[2].Library = PyStr(<<"z", "z">>)
    /\ csv_data[2].Library_Coords = None

-----------------------------------------------------------------------------
(* Location registries of generate_atlas and generate_combined_map *)

\* generate_atlas: CITY_COORDINATES, the same keys and coordinates, in the same
\* order, as the registry of generate_atlas_advanced
CITY_COORDINATES == ADVANCED_CITY_COORDINATES

\* generate_combined_map: CITY_COORDS, in insertion order (degrees * 10^4)
CITY_COORDS == <<
    [name |-> <<"u5317", "u4eac">>, lat |-> 399042, lon |-> 1164074],   \* 北京
    [name |-> <<"u5929", "u6d25">>, lat |-> 393434, lon |-> 1173616],   \* 天津
    [name |-> <<"u4e0a", "u6d77">>, lat |-> 312304, lon |-> 1214737],   \* 上海
    [name |-> <<"u6210", "u90fd">>, lat |-> 305728, lon |-> 1040668],   \* 成都
    [name |-> <<"u957f", "u6c99">>, lat |-> 282282, lon |-> 1129388],   \* 长沙
    [name |-> <<"u5357", "u4eac">>, lat |-> 320603, lon |-> 1187969],   \* 南京
    [name |-> <<"u9547", "u6c5f">>, lat |-> 322109, lon |-> 1194550],   \* 镇江
    [name |-> <<"u6c88", "u9633">>, lat |-> 418057, lon |-> 1234328],   \* 沈阳
    [name |-> <<"u6606", "u660e">>, lat |-> 250389, lon |-> 1027183],   \* 昆明
    [name |-> <<"u5e7f", "u5dde">>, lat |-> 231291, lon |-> 1132644],   \* 广州
    [name |-> <<"u9999", "u6e2f">>, lat |-> 223193, lon |-> 1141694],   \* 香港
    [name |-> <<"u9752", "u6d77">>, lat |-> 366171, lon |-> 1017782] >>   \* 青海

\* generate_atlas.geocode_city(city_name)
geocode_city(city_name) ==
    IF Falsy(city_name) THEN None ELSE CoordsGet(CITY_COORDINATES, city_name.s)

\* generate_combined_map: the location of a standardized name, CITY_COORDS[x] for
\* the records kept by isin(CITY_COORDS.keys()), no location (None) for the others
combined_location(city) ==
    IF city = None THEN None ELSE CoordsGet(CITY_COORDS, city.s)

-----------------------------------------------------------------------------
(* C29 *)

\* the alias table and the lookup of the script of the normalizer f
AliasTable(f) == IF f = "clean_city_name" THEN standardization_map ELSE city_map
Locate(f, v) == IF f = "clean_city_name" THEN geocode_city(v) ELSE combined_location(v)
RegistryOf(f) == IF f = "clean_city_name" THEN CITY_COORDINATES ELSE CITY_COORDS

\* C29: in each script's location registry every alias of the alias table and its
\* canonical name have identical coordinates, and every canonical name the alias
\* table can produce has coordinates in the registry, so geocoding a raw alias and
\* geocoding its normalized name give the same location; geocode_city returns null
\* for any name that is not a registry key.
C29_AliasAndCanonicalSameLocation ==
    (fn \in {"clean_city_name", "combined.standardize_city"} /\ calls = 1
         /\ arg.kind = "str")
        => /\ \A k \in 1..Len(AliasTable(fn)) :
                 arg.s = AliasTable(fn)[k].alias
                    => /\ ret = PyStr(AliasTable(fn)[k].canonical)
                       /\ Locate(fn, ret) # None
                       /\ Locate(fn, arg) = Locate(fn, ret)
           /\ (\A k \in 1..Len(RegistryOf(fn)) : RegistryOf(fn)[k].name # arg.s)
                 => Locate(fn, arg) = None

\* C29, generate_atlas: alias and canonical name are both keys, with the same
\* coordinates, and a name that is no key has no location
C29_AtlasAliasSameLocation ==
    (fn = "clean_city_name" /\ calls = 1 /\ arg.kind = "str")
        => /\ \A k \in 1..Len(standardization_map) :
                 arg.s = standardization_map[k].alias
                    => /\ ret = PyStr(standardization_map[k].canonical)
                       /\ geocode_city(ret) # None
                       /\ geocode_city(arg) = geocode_city(ret)
           /\ (\A k \in 1..Len(CITY_COORDINATES) : CITY_COORDINATES[k].name # arg.s)
                 => geocode_city(arg) = None

\* C29, generate_combined_map: every canonical name of city_map is a key of the
\* registry, and a name that is no key has no location
C29_CombinedCanonicalLocated ==
    (fn = "combined.standardize_city" /\ calls = 1 /\ arg.kind = "str")
        => /\ \A k \in 1..Len(city_map) :
                 arg.s = city_map[k].alias
                    => /\ ret = PyStr(city_map[k].canonical)
                       /\ combined_location(ret) # None
           /\ (\A k \in 1..Len(CITY_COORDS) : CITY_COORDS[k].name # arg.s)
                 => combined_location(arg) = None

\* generate_combined_map: the alias u5317u5e73 is no key of CITY_COORDS, its
\* canonical name is
C29_CombinedAliasNotLocated ==
    /\ fn = "combined.standardize_city"
    /\ calls = 1
    /\ arg = PyStr(BeiPing)
    /\ ret = PyStr(BeiJing)
    /\ combined_location(arg) = None
    /\ combined_location(ret) = [kind |-> "coords", lat |-> 399042, lon |-> 1164074]

\* generate_atlas: the alias u9326u57ce and its canonical name u6210u90fd have the
\* same location
C29_AtlasAliasLocated ==
    /\ fn = "clean_city_name"
    /\ calls = 1
    /\ arg = PyStr(JinCheng)
    /\ ret = PyStr(ChengDu)
    /\ geocode_city(arg) = [kind |-> "coords", lat |-> 305728, lon |-> 1040668]
    /\ geocode_city(ret) = geocode_city(arg)

-----------------------------------------------------------------------------
(* The cleaning alone: extract_pdf_data.clean_ocr_text *)

\* raw texts are concatenations of at most this many pieces
MaxCleanPieces == 4

\* a letter, the two characters the cleaning replaces, whitespace of one and of two
\* characters
CleanPieces == {<<"a">>, <<"|">>, <<"0">>, <<" ">>, <<"\n">>, <<"\t", "u3000">>}

CleanInputs == Concats(CleanPieces, MaxCleanPieces)

InitClean ==
    /\ fn = "clean_ocr_text"
    /\ arg \in CleanInputs
    /\ arg2 = None
    /\ ret = None
    /\ calls = 0
    /\ pipeIdle

\* cleaned_text = clean_ocr_text(combined_text)
CallCleanOcrText ==
    /\ fn = "clean_ocr_text"
    /\ calls = 0
    /\ ret' = clean_ocr_text(arg)
    /\ calls' = 1
    /\ UNCHANGED <<fn, arg, arg2, pipeVars>>

\* the cleaning applied to its own result: arg2 is clean_ocr_text(ret)
CleanAgain ==
    /\ fn = "clean_ocr_text"
    /\ calls = 1
    /\ arg2' = clean_ocr_text(ret)
    /\ calls' = 2
    /\ UNCHANGED <<fn, arg, ret, pipeVars>>

\* lines = cleaned_text.split('\n')
SplitCleaned ==
    /\ fn = "clean_ocr_text"
    /\ calls >= 1
    /\ pc = "idle"
    /\ lines' = Split(ret, "\n")
    /\ pc' = "split"
    /\ UNCHANGED <<fn, arg, arg2, ret, calls, pdf_text, pos, current_entry, entries,
                   csv_data, matches>>

NextClean == CallCleanOcrText \/ CleanAgain \/ SplitCleaned

SpecClean == InitClean /\ [][NextClean]_vars

-----------------------------------------------------------------------------
(* C30 *)

====
